---- MODULE Spec2Model ----
(***************************************************************************)
(* The modal keybinding state machine of VimTextArea                       *)
(* (src/src/vimdown/vim_modes.py), the MarkdownFormatter                   *)
(* (src/src/vimdown/markdown_formatter.py) and the session state of the    *)
(* application MarkdownEditor (src/src/vimdown/main.py), its file tree     *)
(* CustomDirectoryTree (src/src/vimdown/file_tree.py) and the status-line  *)
(* model of the test suite (src/tests/test_suite.py).                      *)
(*                                                                         *)
(* Text is a sequence of one-character strings; the document is a sequence *)
(* of lines; a location is <<row, column>>, both counted from 0 as in the  *)
(* source.  The widget VimTextArea extends is the toolkit's TextArea: its  *)
(* editing primitives (replace, insert, delete, the cursor actions, the    *)
(* handling of a key that was not prevented) are modelled here by what     *)
(* they do to the document and the selection.                              *)
(***************************************************************************)
EXTENDS Integers, Sequences, FiniteSets, TLC

VARIABLES lines, selection, vim_mode, undo_stack, redo_stack,
          key, prevented, branch, pre, nkeys,
          current_file, is_modified, preview_mode, editor_content,
          sub_title, changed, files, op, was,
          format_call,
          current_path, nodes, fs, tree_op, tree_was, current_directory,
          status_line

\* format_call is one call of MarkdownFormatter.format_text: its arguments,
\* whether it has returned and what it returned
fmtvars == <<format_call>>

\* CustomDirectoryTree: its current_path, the nodes under the root of its
\* Tree, the file system it lists, its last operation and the state that
\* operation found; current_directory is the application's
treevars == <<current_path, nodes, fs, tree_op, tree_was, current_directory>>

\* status_line is the status-line model of the test suite: its
\* MarkdownEditor with the status bar and the text area, the message last
\* handed to update_status, the last operation and the state it found
statusvars == <<status_line>>

\* the variables that the text area and the application leave alone
restvars == <<fmtvars, treevars, statusvars>>

\* the state of MarkdownEditor, the Changed messages not yet handled, the
\* files on disk, the last operation and the state it found
appvars == <<current_file, is_modified, preview_mode, editor_content,
             sub_title, changed, files, op, was>>

vars == <<lines, selection, vim_mode, undo_stack, redo_stack,
          key, prevented, branch, pre, nkeys,
          current_file, is_modified, preview_mode, editor_content,
          sub_title, changed, files, op, was,
          format_call,
          current_path, nodes, fs, tree_op, tree_was, current_directory,
          status_line>>

(***************************************************************************)
(* Bounds.                                                                 *)
(***************************************************************************)
\* key events of one run that starts in an arbitrary editing state
MaxKeys == 1
\* key and pointer events of one run that starts at construction
MaxSteps == 2
\* repetitions of the key sequence escape, i
MaxRounds == 4
\* operations of one session of the application
MaxOps == 3
\* characters of a text given to the formatter
MaxText == 3
\* operations on the file tree and changes of the file system in one run
MaxTreeOps == 3

(***************************************************************************)
(* Text.                                                                   *)
(***************************************************************************)
NL == "\n"

Min(a, b) == IF a <= b THEN a ELSE b
Max(a, b) == IF a >= b THEN a ELSE b

\* python: t.split("\n")
RECURSIVE Split(_)
Split(t) ==
    IF \A i \in 1..Len(t) : t[i] # NL
    THEN <<t>>
    ELSE LET i == CHOOSE n \in 1..Len(t) :
                      t[n] = NL /\ \A j \in 1..(n - 1) : t[j] # NL
         IN  <<SubSeq(t, 1, i - 1)>> \o Split(SubSeq(t, i + 1, Len(t)))

\* python: "\n".join(ls)
RECURSIVE Join(_)
Join(ls) ==
    IF Len(ls) = 0 THEN <<>>
    ELSE IF Len(ls) = 1 THEN ls[1]
    ELSE ls[1] \o <<NL>> \o Join(Tail(ls))

\* the grave accent (backtick) character, which a string cannot hold here
BQ == "backtick"

\* the non-word characters of the word pattern that can occur in a line
NonWordChars ==
    {" ", "*", "~", BQ, "#", "-", ".", ">", "[", "]", "(", ")", "|", "!"}
IsWordChar(c) == c \notin NonWordChars
IsSpace(c) == c = " "

(***************************************************************************)
(* Locations and the document.                                             *)
(***************************************************************************)
LocLE(a, b) == a[1] < b[1] \/ (a[1] = b[1] /\ a[2] <= b[2])
TopOf(a, b) == IF LocLE(a, b) THEN a ELSE b
BottomOf(a, b) == IF LocLE(a, b) THEN b ELSE a

\* TextArea.get_line(row).plain
GetLine(ls, row) == ls[row + 1]

\* the locations of a document
Locations(ls) ==
    UNION { { <<r, c>> : c \in 0..Len(ls[r + 1]) } : r \in 0..(Len(ls) - 1) }

\* TextArea.clamp_visitable: every assignment to the selection goes through it
ClampColumn(ls, row, col) == <<row, Max(0, Min(col, Len(ls[row + 1])))>>

ClampVisitable(ls, loc) ==
    ClampColumn(ls, Max(0, Min(loc[1], Len(ls) - 1)), loc[2])

Cursor(loc) == [start |-> loc, end |-> loc]

\* the text from top to bottom, top before bottom
TextBetween(ls, top, bottom) ==
    IF top[1] = bottom[1]
    THEN SubSeq(ls[top[1] + 1], top[2] + 1, bottom[2])
    ELSE Join(<<SubSeq(ls[top[1] + 1], top[2] + 1, Len(ls[top[1] + 1]))>>
              \o SubSeq(ls, top[1] + 2, bottom[1])
              \o <<SubSeq(ls[bottom[1] + 1], 1, bottom[2])>>)

\* Document.get_text_range(start, end): the bounds are sorted first
GetTextRange(ls, a, b) == TextBetween(ls, TopOf(a, b), BottomOf(a, b))

\* the lines that replace a range: the text before the range joins the first
\* inserted line and the text after it the last
InsertLines(before, ins, after) ==
    IF Len(ins) = 1 THEN <<before \o ins[1] \o after>>
    ELSE <<before \o ins[1]>> \o SubSeq(ins, 2, Len(ins) - 1)
         \o <<ins[Len(ins)] \o after>>

\* the column at which the inserted text ends
DestinationColumn(before, ins) ==
    IF Len(ins) = 1 THEN Len(before) + Len(ins[1]) ELSE Len(ins[Len(ins)])

\* the rest of the line of location bottom; a bottom row past the last line
\* (the range action_delete_line gives for the last line) has nothing after
AfterRange(ls, bottom) ==
    IF bottom[1] >= Len(ls) THEN <<>>
    ELSE SubSeq(ls[bottom[1] + 1], bottom[2] + 1, Len(ls[bottom[1] + 1]))

ReplaceSorted(ls, top, bottom, ins) ==
    [lines |-> SubSeq(ls, 1, top[1])
               \o InsertLines(SubSeq(ls[top[1] + 1], 1, top[2]), ins,
                              AfterRange(ls, bottom))
               \o SubSeq(ls, bottom[1] + 2, Len(ls)),
     end_location |->
         <<top[1] + Len(ins) - 1,
           DestinationColumn(SubSeq(ls[top[1] + 1], 1, top[2]), ins)>>]

\* Document.replace_range(start, end, text): the new lines and the location
\* of the end of the inserted text
ReplaceRange(ls, a, b, text) ==
    ReplaceSorted(ls, TopOf(a, b), BottomOf(a, b), Split(text))

(***************************************************************************)
(* The editing state of the widget: a record e with the fields lines,      *)
(* selection (start, end; the cursor is selection.end), vim_mode,          *)
(* undo_stack and redo_stack.                                              *)
(***************************************************************************)
Modes == {"INSERT", "NORMAL", "VISUAL"}

\* TextArea.cursor_location (getter)
CursorLocation(e) == e.selection.end

\* SetSelection with the locations taken as given
SetSelectionUnclamped(e, sel) == [e EXCEPT !.selection = sel]

\* TextArea.selection = ...: the locations are clamped to the document
SetSelection(e, sel) ==
    [e EXCEPT !.selection = [start |-> ClampVisitable(e.lines, sel.start),
                             end |-> ClampVisitable(e.lines, sel.end)]]

\* SetCursorLocation that leaves the cursor where it is
SetCursorLocationIgnored(e, loc) == e

\* TextArea.cursor_location = loc: the selection collapses to loc
SetCursorLocation(e, loc) == SetSelection(e, Cursor(loc))

Snapshot(e) == [lines |-> e.lines, selection |-> e.selection]

\* Edit.do: a location of the selection at or after the end of the replaced
\* range keeps its offset from the end of the edit (ne)
Adjust(loc, bottom, ne) ==
    << IF bottom[1] <= loc[1] THEN loc[1] + (ne[1] - bottom[1]) ELSE loc[1],
       IF bottom[1] = loc[1] /\ bottom[2] <= loc[2]
           THEN loc[2] + (ne[2] - bottom[2]) ELSE loc[2] >>

ApplyEdit(e, bottom, r, maintain) ==
    SetSelection([e EXCEPT !.lines = r.lines,
                           !.undo_stack = Append(@, Snapshot(e)),
                           !.redo_stack = <<>>],
                 IF maintain
                 THEN [start |-> Adjust(e.selection.start, bottom,
                                        r.end_location),
                       end |-> Adjust(e.selection.end, bottom,
                                      r.end_location)]
                 ELSE Cursor(r.end_location))

\* TextArea.edit(Edit(text, a, b, maintain_selection_offset)): replaces the
\* range, records the edit in the history, and either keeps the selection
\* at its offset from the end of the edit or puts the cursor there
Edit(e, text, a, b, maintain) ==
    ApplyEdit(e, BottomOf(a, b), ReplaceRange(e.lines, a, b, text), maintain)

\* TextArea.replace(text, start, end)
Replace(e, text, a, b) == Edit(e, text, a, b, TRUE)

\* Insert that inserts nothing
InsertNothing(e, text) == e

\* TextArea.insert(text): at the cursor
Insert(e, text) == Edit(e, text, CursorLocation(e), CursorLocation(e), TRUE)

\* Delete that deletes nothing
DeleteNothing(e, a, b) == e

\* TextArea.delete(start, end)
Delete(e, a, b) == Edit(e, <<>>, a, b, TRUE)

\* the state of snapshot s
Restore(e, s) == [e EXCEPT !.lines = s.lines, !.selection = s.selection]

\* TextArea.action_undo: the last edit is taken back, with the selection it
\* was made from
ActionUndo(e) ==
    IF e.undo_stack = <<>> THEN e
    ELSE [Restore(e, e.undo_stack[Len(e.undo_stack)])
             EXCEPT !.undo_stack = SubSeq(@, 1, Len(@) - 1),
                    !.redo_stack = Append(@, Snapshot(e))]

\* TextArea.action_redo
ActionRedo(e) ==
    IF e.redo_stack = <<>> THEN e
    ELSE [Restore(e, e.redo_stack[Len(e.redo_stack)])
             EXCEPT !.redo_stack = SubSeq(@, 1, Len(@) - 1),
                    !.undo_stack = Append(@, Snapshot(e))]

\* TextArea.move_cursor_relative(rows, columns)
MoveCursorRelative(e, rows, columns) ==
    SetCursorLocation(e, <<e.selection.end[1] + rows,
                           e.selection.end[2] + columns>>)

\* the length of the line the cursor is on
CursorLineLength(e) == Len(e.lines[e.selection.end[1] + 1])

\* TextArea.action_cursor_down: on the last line, to the end of that line
ActionCursorDown(e) ==
    IF e.selection.end[1] = Len(e.lines) - 1
    THEN SetCursorLocation(e, <<e.selection.end[1], CursorLineLength(e)>>)
    ELSE MoveCursorRelative(e, 1, 0)

\* TextArea.action_cursor_up: on the first line, to its start
ActionCursorUp(e) ==
    IF e.selection.end[1] = 0 THEN SetCursorLocation(e, <<0, 0>>)
    ELSE MoveCursorRelative(e, -1, 0)

\* a word boundary of line s lies before (1-based) index i
IsBoundary(s, i) ==
    i >= 2 /\ i <= Len(s) /\ IsWordChar(s[i - 1]) # IsWordChar(s[i])

\* the number of spaces line s starts with (s.lstrip()) and the length of s
\* without the spaces it ends with (s.rstrip())
LeadingSpaces(s) ==
    IF \A i \in 1..Len(s) : IsSpace(s[i]) THEN Len(s)
    ELSE (CHOOSE i \in 1..Len(s) :
             ~IsSpace(s[i]) /\ \A j \in 1..(i - 1) : IsSpace(s[j])) - 1

StrippedLength(s) ==
    IF \A i \in 1..Len(s) : IsSpace(s[i]) THEN 0
    ELSE CHOOSE i \in 1..Len(s) :
             ~IsSpace(s[i]) /\ \A j \in (i + 1)..Len(s) : IsSpace(s[j])

Boundaries(s) == { i \in 1..Len(s) : IsBoundary(s, i) }

\* the offset in s of the first word boundary, Len(s) when there is none
FirstBoundary(s) ==
    IF Boundaries(s) = {} THEN Len(s)
    ELSE (CHOOSE i \in Boundaries(s) : \A j \in Boundaries(s) : i <= j) - 1

\* the offset in s of the last word boundary, 0 when there is none
LastBoundary(s) ==
    IF Boundaries(s) = {} THEN 0
    ELSE (CHOOSE i \in Boundaries(s) : \A j \in Boundaries(s) : i >= j) - 1

\* the column in line of the next word start or end after column col
WordRightColumn(line, col, strip) ==
    col + strip + FirstBoundary(SubSeq(line, col + strip + 1, Len(line)))

\* TextArea.action_cursor_word_right
ActionCursorWordRight(e) ==
    IF e.selection.end[1] < Len(e.lines) - 1
       /\ e.selection.end[2] = CursorLineLength(e)
    THEN SetCursorLocation(e, <<e.selection.end[1] + 1, 0>>)
    ELSE SetCursorLocation(e,
             <<e.selection.end[1],
               WordRightColumn(e.lines[e.selection.end[1] + 1],
                   e.selection.end[2],
                   LeadingSpaces(SubSeq(e.lines[e.selection.end[1] + 1],
                                        e.selection.end[2] + 1,
                                        CursorLineLength(e))))>>)

\* the column of the last word boundary of s before the spaces s ends with
WordLeftColumn(s) == LastBoundary(SubSeq(s, 1, StrippedLength(s)))

\* TextArea.action_cursor_word_left
ActionCursorWordLeft(e) ==
    IF e.selection.end[1] > 0 /\ e.selection.end[2] = 0
    THEN SetCursorLocation(e,
             <<e.selection.end[1] - 1, Len(e.lines[e.selection.end[1]])>>)
    ELSE SetCursorLocation(e,
             <<e.selection.end[1],
               WordLeftColumn(SubSeq(e.lines[e.selection.end[1] + 1], 1,
                                     e.selection.end[2]))>>)

\* ActionCursorLineEnd that leaves the cursor where it is
ActionCursorLineEndStaying(e) == e

\* TextArea.action_cursor_line_end
ActionCursorLineEnd(e) ==
    SetCursorLocation(e, <<e.selection.end[1], CursorLineLength(e)>>)

\* the column of the first character of the line that is not a space (0 when
\* there is none)
FirstNonWhitespace(line) ==
    IF \A i \in 1..Len(line) : IsSpace(line[i]) THEN 0
    ELSE LeadingSpaces(line)

\* TextArea.action_cursor_line_start: column 0, or with the toolkit's "smart
\* home" the first column that holds no space; which one depends on the
\* toolkit's version and on where the cursor is, so it is an input (smart)
ActionCursorLineStart(e, smart) ==
    SetCursorLocation(e,
        <<e.selection.end[1],
          IF smart THEN FirstNonWhitespace(e.lines[e.selection.end[1] + 1])
                   ELSE 0>>)

\* the last row action_delete_line deletes: a selection that ends at column 0
\* of a later line leaves that line
DeleteLineEndRow(top, bottom) ==
    IF top[1] # bottom[1] /\ bottom[2] = 0 THEN bottom[1] - 1 ELSE bottom[1]

DeleteLines(e, top, bottom) ==
    MoveCursorRelative(
        Edit(e, <<>>, <<top[1], 0>>,
             <<DeleteLineEndRow(top, bottom) + 1, 0>>, FALSE),
        0, bottom[2])

\* TextArea.action_delete_line: the lines the selection touches are deleted
\* and the cursor keeps its column as far as the line that follows allows
ActionDeleteLine(e) ==
    DeleteLines(e, TopOf(e.selection.start, e.selection.end),
                BottomOf(e.selection.start, e.selection.end))

(***************************************************************************)
(* Key events.  A key is named as the source names it; a key whose name is *)
(* one character is printable and carries that character.                  *)
(***************************************************************************)
FormatKeys ==
    {"b", "i", "s", "c", "C", "1", "2", "3", "4", "5", "6",
     "l", "L", "q", "u", "r", "t"}

VisualNavKeys == {"h", "j", "k", "l", "w", "b", "0", "shift+4"}

ModifierKeys == {"shift", "ctrl", "alt"}

NormalCommandKeys ==
    {"i", "a", "o", "shift+o", "shift+a", "shift+i", "v", "h", "l", "j", "k",
     "w", "b", "x", "d", "u", "ctrl+r", "shift+g", "g", "0", "shift+4"}

PrintableKeys ==
    {"a", "b", "c", "d", "g", "h", "i", "j", "k", "l", "o", "q", "r", "s",
     "t", "u", "v", "w", "x", "C", "L", "0", "1", "2", "3", "4", "5", "6"}

Keys ==
    {"escape", "ctrl+c", "enter"} \cup ModifierKeys \cup FormatKeys
    \cup VisualNavKeys \cup NormalCommandKeys \cup PrintableKeys

(***************************************************************************)
(* VimTextArea.                                                            *)
(***************************************************************************)
\* EnterInsertMode that leaves the mode as it is
EnterInsertModeStaying(e) == e

\* VimTextArea._enter_insert_mode
EnterInsertMode(e) == [e EXCEPT !.vim_mode = "INSERT"]

\* VimTextArea._enter_normal_mode: a selection collapses to its start
EnterNormalMode(e) ==
    IF e.selection.start # e.selection.end
    THEN SetSelection([e EXCEPT !.vim_mode = "NORMAL"],
                      Cursor(e.selection.start))
    ELSE [e EXCEPT !.vim_mode = "NORMAL"]

\* EnterVisualMode with the mode misspelt
EnterVisualModeMisspelt(e) == [e EXCEPT !.vim_mode = "visual"]

\* EnterVisualMode that leaves the mode as it is
EnterVisualModeStaying(e) == e

\* VimTextArea._enter_visual_mode
EnterVisualMode(e) == [e EXCEPT !.vim_mode = "VISUAL"]

\* VimTextArea._get_selected_text
GetSelectedText(e) ==
    IF e.selection.start # e.selection.end
    THEN GetTextRange(e.lines, e.selection.start, e.selection.end)
    ELSE <<>>

\* ReplaceSelection that inserts at the start of the selection and removes
\* nothing
ReplaceSelectionKeeping(e, new_text) ==
    IF e.selection.start # e.selection.end
    THEN Replace(e, new_text, e.selection.start, e.selection.start)
    ELSE e

\* VimTextArea._replace_selection
ReplaceSelection(e, new_text) ==
    IF e.selection.start # e.selection.end
    THEN Replace(e, new_text, e.selection.start, e.selection.end)
    ELSE e

Placeholder == <<"t", "e", "x", "t">>

\* "#" * n
Hashes(n) == [i \in 1..n |-> "#"]

\* the formatters of VimTextArea._format_markdown
Formatters(format_type, t) ==
    CASE format_type = "b" -> <<"*", "*">> \o t \o <<"*", "*">>
      [] format_type = "i" -> <<"*">> \o t \o <<"*">>
      [] format_type = "s" -> <<"~", "~">> \o t \o <<"~", "~">>
      [] format_type = "c" -> <<BQ>> \o t \o <<BQ>>
      [] format_type = "C" -> <<BQ, BQ, BQ, NL>> \o t \o <<NL, BQ, BQ, BQ>>
      [] format_type = "1" -> Hashes(1) \o <<" ">> \o t
      [] format_type = "2" -> Hashes(2) \o <<" ">> \o t
      [] format_type = "3" -> Hashes(3) \o <<" ">> \o t
      [] format_type = "4" -> Hashes(4) \o <<" ">> \o t
      [] format_type = "5" -> Hashes(5) \o <<" ">> \o t
      [] format_type = "6" -> Hashes(6) \o <<" ">> \o t
      [] format_type = "l" -> <<"-", " ">> \o t
      [] format_type = "L" -> <<"1", ".", " ">> \o t
      [] format_type = "q" -> <<">", " ">> \o t
      [] format_type = "u" -> <<"[">> \o t \o <<"]", "(", "u", "r", "l", ")">>
      [] format_type = "r" -> <<"[">> \o t \o <<"]", "[", "r", "e", "f", "]">>
      [] format_type = "t" -> <<"|", " ">> \o t \o <<" ", "|">>
      [] OTHER -> t

\* VimTextArea._format_markdown
FormatMarkdown(format_type, text) ==
    Formatters(format_type, IF text = <<>> THEN Placeholder ELSE text)

\* VimTextArea._handle_visual_mode_formatting, lines 88-100
FormatSelection(e, k, selected_text) ==
    IF selected_text = <<>> THEN [e |-> e, handled |-> FALSE]
    ELSE IF k \in FormatKeys
    THEN [e |-> EnterNormalMode(
                    ReplaceSelection(e, FormatMarkdown(k, selected_text))),
          handled |-> TRUE]
    ELSE [e |-> e, handled |-> FALSE]

\* VimTextArea._handle_visual_mode_formatting: the state and the result
HandleVisualModeFormatting(e, k) == FormatSelection(e, k, GetSelectedText(e))

\* a command of _handle_normal_mode_commands that was handled
Done(e) == [e |-> e, handled |-> TRUE]

\* VimTextArea._handle_normal_mode_commands with the cursor at (row, col):
\* the state and the result
NormalCommand(e, k, smart, row, col) ==
    CASE k = "i" -> Done(EnterInsertMode(e))
      [] k = "a" ->
             Done(EnterInsertMode(
                 IF col < Len(GetLine(e.lines, row))
                 THEN SetCursorLocation(e, <<row, col + 1>>) ELSE e))
      [] k = "o" ->
             Done(EnterInsertMode(
                 Insert(SetCursorLocation(e,
                            <<row, Len(GetLine(e.lines, row))>>),
                        <<NL>>)))
      [] k = "shift+o" ->
             Done(EnterInsertMode(
                 SetCursorLocation(
                     Insert(SetCursorLocation(e, <<row, 0>>), <<NL>>),
                     <<row, 0>>)))
      [] k = "shift+a" -> Done(EnterInsertMode(ActionCursorLineEnd(e)))
      [] k = "shift+i" ->
             Done(EnterInsertMode(ActionCursorLineStart(e, smart)))
      [] k = "v" ->
             Done(SetSelection(EnterVisualMode(e), Cursor(<<row, col>>)))
      [] k = "h" ->
             Done(IF col > 0 THEN SetCursorLocation(e, <<row, col - 1>>)
                  ELSE IF row > 0
                  THEN SetCursorLocation(e,
                           <<row - 1, Len(GetLine(e.lines, row - 1))>>)
                  ELSE e)
      [] k = "l" ->
             Done(IF col < Len(GetLine(e.lines, row))
                  THEN SetCursorLocation(e, <<row, col + 1>>)
                  ELSE IF row < Len(e.lines) - 1
                  THEN SetCursorLocation(e, <<row + 1, 0>>)
                  ELSE e)
      [] k = "j" -> Done(ActionCursorDown(e))
      [] k = "k" -> Done(ActionCursorUp(e))
      [] k = "w" -> Done(ActionCursorWordRight(e))
      [] k = "b" -> Done(ActionCursorWordLeft(e))
      [] k = "x" ->
             Done(IF col < Len(GetLine(e.lines, row))
                  THEN Delete(e, <<row, col>>, <<row, col + 1>>)
                  ELSE e)
      [] k = "d" -> Done(ActionDeleteLine(e))
      [] k = "u" -> Done(ActionUndo(e))
      [] k = "ctrl+r" -> Done(ActionRedo(e))
      [] k = "shift+g" ->
             Done(IF Len(e.lines) - 1 >= 0
                  THEN SetCursorLocation(e,
                           <<Len(e.lines) - 1,
                             Len(GetLine(e.lines, Len(e.lines) - 1))>>)
                  ELSE e)
      [] k = "g" -> Done(SetCursorLocation(e, <<0, 0>>))
      [] k = "0" -> Done(ActionCursorLineStart(e, smart))
      [] k = "shift+4" -> Done(ActionCursorLineEnd(e))
      [] OTHER -> [e |-> e, handled |-> FALSE]

\* VimTextArea._handle_normal_mode_commands: the state and the result
HandleNormalModeCommands(e, k, smart) ==
    NormalCommand(e, k, smart, e.selection.end[1], e.selection.end[2])

\* the result of on_key: the state, whether event.prevent_default() was
\* called, and the branch of on_key that handled the key
Handled(e, p, br) == [e |-> e, prevented |-> p, branch |-> br]

\* AutoVisual that promotes from NORMAL only
AutoVisualFromNormal(e, k) ==
    IF e.selection.start # e.selection.end /\ e.vim_mode = "NORMAL"
       /\ k \notin {"escape"}
    THEN [e EXCEPT !.vim_mode = "VISUAL"]
    ELSE e

\* VimTextArea.on_key, lines 231-235: a selection promotes the mode to VISUAL
AutoVisual(e, k) ==
    IF e.selection.start # e.selection.end /\ e.vim_mode # "VISUAL"
       /\ k \notin {"escape"}
    THEN EnterVisualMode(e)
    ELSE e

\* VisualKey whose exit to NORMAL leaves the default handling to run
VisualKeyExitUnprevented(e, k, f) ==
    IF f.handled THEN Handled(f.e, TRUE, "visual_format")
    ELSE IF k \in VisualNavKeys THEN Handled(e, FALSE, "visual_nav")
    ELSE IF k \notin ModifierKeys
    THEN Handled([e EXCEPT !.vim_mode = "NORMAL",
                           !.selection = Cursor(e.selection.start)],
                 FALSE, "visual_exit")
    ELSE Handled(e, FALSE, "visual_modifier")

\* VimTextArea.on_key, lines 243-258, with line 276 for the key that leaves
\* VISUAL; f is the result of _handle_visual_mode_formatting
VisualKey(e, k, f) ==
    IF f.handled THEN Handled(f.e, TRUE, "visual_format")
    ELSE IF k \in VisualNavKeys THEN Handled(e, FALSE, "visual_nav")
    ELSE IF k \notin ModifierKeys
    THEN Handled(EnterNormalMode(e), TRUE, "visual_exit")
    ELSE Handled(e, FALSE, "visual_modifier")

OnKeyVisual(e, k) == VisualKey(e, k, HandleVisualModeFormatting(e, k))

\* NormalKey that leaves a key that is no command to the default handling
NormalKeyUnprevented(e, h) ==
    IF h.handled THEN Handled(h.e, TRUE, "normal_command")
    ELSE Handled(e, FALSE, "normal_other")

\* VimTextArea.on_key, lines 260-264, with line 276 for the key that is no
\* command; h is the result of _handle_normal_mode_commands
NormalKey(e, h) ==
    IF h.handled THEN Handled(h.e, TRUE, "normal_command")
    ELSE Handled(e, e.vim_mode = "NORMAL", "normal_other")

OnKeyNormal(e, k, smart) ==
    NormalKey(e, HandleNormalModeCommands(e, k, smart))

\* OnKeyInsert without the alternate escape
OnKeyInsertNoAlternate(e, k) == Handled(e, FALSE, "insert")

\* OnKeyInsert that prevents the default of every key
OnKeyInsertPreventing(e, k) ==
    IF k \in {"ctrl+c"}
    THEN Handled([e EXCEPT !.vim_mode = "NORMAL"], TRUE, "insert_escape")
    ELSE Handled(e, TRUE, "insert")

\* VimTextArea.on_key, lines 266-273
OnKeyInsert(e, k) ==
    IF k \in {"ctrl+c"} THEN Handled(EnterNormalMode(e), TRUE, "insert_escape")
    ELSE Handled(e, FALSE, "insert")

\* VimTextArea.on_key, lines 237-277
OnKeyMode(e, k, smart) ==
    IF k = "escape" THEN Handled(EnterNormalMode(e), TRUE, "escape")
    ELSE IF e.vim_mode = "VISUAL" THEN OnKeyVisual(e, k)
    ELSE IF e.vim_mode = "NORMAL" THEN OnKeyNormal(e, k, smart)
    ELSE OnKeyInsert(e, k)

\* VimTextArea.on_key
OnKey(e, k, smart) == OnKeyMode(AutoVisual(e, k), k, smart)

\* TextArea._on_key, the handler of the base class, which runs after on_key
\* unless the default was prevented: a printable key, or enter, replaces the
\* selection by its character and leaves the cursor after it
TextAreaOnKey(e, k) ==
    IF k \in PrintableKeys \/ k = "enter"
    THEN Edit(e, IF k = "enter" THEN <<NL>> ELSE <<k>>,
              e.selection.start, e.selection.end, FALSE)
    ELSE e

\* the base class's handler runs unless on_key prevented the default
AfterOnKey(r, k) ==
    IF r.prevented THEN r ELSE [r EXCEPT !.e = TextAreaOnKey(r.e, k)]

\* one key event delivered to the widget
Dispatch(e, k, smart) == AfterOnKey(OnKey(e, k, smart), k)

(***************************************************************************)
(* MarkdownFormatter.                                                      *)
(***************************************************************************)
DigitChars == <<"0", "1", "2", "3", "4", "5", "6", "7", "8", "9">>

\* python: str(n) of a natural number
RECURSIVE Str(_)
Str(n) ==
    IF n < 10 THEN <<DigitChars[n + 1]>>
    ELSE Str(n \div 10) \o <<DigitChars[(n % 10) + 1]>>

\* python: [prefix + line for line in ls]
PrefixEach(prefix, ls) == [i \in 1..Len(ls) |-> prefix \o ls[i]]

\* NumberEach for an enumeration that is not shifted by one
NumberEachFromZero(ls) ==
    [i \in 1..Len(ls) |-> Str(i - 1) \o <<".", " ">> \o ls[i]]

\* python: [f"{i + 1}. {line}" for i, line in enumerate(ls)]
NumberEach(ls) == [i \in 1..Len(ls) |-> Str(i) \o <<".", " ">> \o ls[i]]

\* what the table formatter writes after the header of column 1
TableRest ==
    <<" ", "|", " ", "C", "o", "l", "u", "m", "n", " ", "2", " ",
      "|", NL, "|", "-", "-", "-", "-", "-", "-", "-", "-", "-",
      "-", "|", "-", "-", "-", "-", "-", "-", "-", "-", "-", "-",
      "|", NL, "|", " ", "R", "o", "w", " ", "1", " ", " ", " ",
      " ", "|", " ", "D", "a", "t", "a", " ", " ", " ", " ", " ",
      "|", NL, "|", " ", "R", "o", "w", " ", "2", " ", " ", " ",
      " ", "|", " ", "D", "a", "t", "a", " ", " ", " ", " ", " ",
      "|">>

FormatTags ==
    {"h1", "h2", "h3", "h4", "h5", "h6", "bold", "italic", "bold_italic",
     "strikethrough", "code", "code_block", "blockquote", "ul", "ol", "link",
     "image", "table", "hr"}

\* TextFormatters for a table whose formatters all return the empty string
FormattersDroppingText(format_type, t) == <<>>

\* the formatters of MarkdownFormatter.format_text
TextFormatters(format_type, t) ==
    CASE format_type = "h1" -> Hashes(1) \o <<" ">> \o t
      [] format_type = "h2" -> Hashes(2) \o <<" ">> \o t
      [] format_type = "h3" -> Hashes(3) \o <<" ">> \o t
      [] format_type = "h4" -> Hashes(4) \o <<" ">> \o t
      [] format_type = "h5" -> Hashes(5) \o <<" ">> \o t
      [] format_type = "h6" -> Hashes(6) \o <<" ">> \o t
      [] format_type = "bold" -> <<"*", "*">> \o t \o <<"*", "*">>
      [] format_type = "italic" -> <<"*">> \o t \o <<"*">>
      [] format_type = "bold_italic" ->
             <<"*", "*", "*">> \o t \o <<"*", "*", "*">>
      [] format_type = "strikethrough" -> <<"~", "~">> \o t \o <<"~", "~">>
      [] format_type = "code" -> <<BQ>> \o t \o <<BQ>>
      [] format_type = "code_block" ->
             <<BQ, BQ, BQ, NL>> \o t \o <<NL, BQ, BQ, BQ>>
      [] format_type = "blockquote" -> Join(PrefixEach(<<">", " ">>, Split(t)))
      [] format_type = "ul" -> Join(PrefixEach(<<"-", " ">>, Split(t)))
      [] format_type = "ol" -> Join(NumberEach(Split(t)))
      [] format_type = "link" ->
             <<"[">> \o t \o <<"]", "(", "u", "r", "l", ")">>
      [] format_type = "image" ->
             <<"!", "[">> \o t
             \o <<"]", "(", "i", "m", "a", "g", "e", "_", "u", "r", "l", ")">>
      [] format_type = "table" -> <<"|", " ">> \o t \o TableRest
      [] format_type = "hr" -> <<"-", "-", "-">>
      [] OTHER -> t

\* FormatText for a formatter that does not replace an empty text
FormatTextAsGiven(format_type, selected_text) ==
    TextFormatters(format_type, selected_text)

\* FormatText for a formatter that formats the placeholder whatever it is given
FormatTextOfPlaceholder(format_type, selected_text) ==
    TextFormatters(format_type, Placeholder)

\* MarkdownFormatter.format_text
FormatText(format_type, selected_text) ==
    TextFormatters(format_type,
        IF selected_text = <<>> THEN Placeholder ELSE selected_text)

\* the markdown construct each formatting key of VISUAL mode stands for: the
\* comments of the table of _format_markdown, named as format_text names them
KeyTag(k) ==
    CASE k = "b" -> "bold"
      [] k = "i" -> "italic"
      [] k = "s" -> "strikethrough"
      [] k = "c" -> "code"
      [] k = "C" -> "code_block"
      [] k = "1" -> "h1"
      [] k = "2" -> "h2"
      [] k = "3" -> "h3"
      [] k = "4" -> "h4"
      [] k = "5" -> "h5"
      [] k = "6" -> "h6"
      [] k = "l" -> "ul"
      [] k = "L" -> "ol"
      [] k = "q" -> "blockquote"
      [] k = "u" -> "link"
      [] k = "t" -> "table"
      [] OTHER -> "none"

(***************************************************************************)
(* CustomDirectoryTree.  A path is the sequence of its parts below the     *)
(* root of the file system, a part a sequence of characters.               *)
(***************************************************************************)
\* pathlib: Path("/")
Root == <<>>

\* pathlib: path.parent, which for the root is the root
Parent(p) == IF p = Root THEN p ELSE SubSeq(p, 1, Len(p) - 1)

\* the directory the application is started in
WorkDir == << <<"w">> >>

\* the paths that exist at some time: the working directory, below it the
\* directories a and b and the files y.txt and z.md, and a file in a
DirPaths ==
    {Root, WorkDir, WorkDir \o << <<"a">> >>, WorkDir \o << <<"b">> >>}

FilePaths ==
    {WorkDir \o << <<"y", ".", "t", "x", "t">> >>,
     WorkDir \o << <<"z", ".", "m", "d">> >>,
     WorkDir \o << <<"a">>, <<"n", ".", "m", "d">> >>}

Universe == DirPaths \cup FilePaths

\* a file system with every path of the universe
FullTree == [p \in Universe |-> IF p \in FilePaths THEN "file" ELSE "dir"]

\* pathlib: path.is_dir(); "locked" is a directory that may not be read
IsDir(f, p) == f[p] \in {"dir", "locked"}

\* pathlib: path.stat() raises PermissionError, and with it is_dir() and
\* is_file(): "denied" is an entry whose status may not be read, such as a
\* link into a directory that may not be searched
StatDenied(f, p) == f[p] = "denied"

\* pathlib: path.is_file()
IsFile(f, p) == f[p] = "file"

\* pathlib: path.iterdir() of a directory that can be read
Iterdir(f, p) ==
    {q \in Universe : q # p /\ Parent(q) = p /\ f[q] # "absent"}

\* the characters of the names, in the order of their code points
CharOrder == <<".", "a", "b", "d", "m", "n", "t", "w", "x", "y", "z">>

\* python: ord(c), up to the order
Ord(c) == CHOOSE i \in 1..Len(CharOrder) : CharOrder[i] = c

\* python: s < t for strings
RECURSIVE StrLess(_, _)
StrLess(s, t) ==
    IF t = <<>> THEN FALSE
    ELSE IF s = <<>> THEN TRUE
    ELSE IF s[1] # t[1] THEN Ord(s[1]) < Ord(t[1])
    ELSE StrLess(Tail(s), Tail(t))

\* pathlib: p < q, the comparison of the parts, for two paths of one directory
PathLess(p, q) == StrLess(p[Len(p)], q[Len(q)])

\* Sorted for a sort that puts the greatest path first
RECURSIVE SortedDescending(_)
SortedDescending(S) ==
    IF S = {} THEN <<>>
    ELSE LET g == CHOOSE x \in S : \A y \in S \ {x} : PathLess(y, x)
         IN  <<g>> \o SortedDescending(S \ {g})

\* python: sorted(S) for paths of one directory
RECURSIVE Sorted(_)
Sorted(S) ==
    IF S = {} THEN <<>>
    ELSE LET l == CHOOSE x \in S : \A y \in S \ {x} : PathLess(x, y)
         IN  <<l>> \o Sorted(S \ {l})

\* root.add(label, data = {"type": type, "path": path}) for each path
NodesOf(type, ps) == [i \in 1..Len(ps) |-> [type |-> type, path |-> ps[i]]]

\* refresh_tree: the node of the parent directory
ParentNode(p) ==
    IF Parent(p) # p THEN NodesOf("parent", <<Parent(p)>>) ELSE <<>>

\* refresh_tree: whether [p for p in iterdir() if p.is_dir()] is built, and
\* likewise the list of the files: iterdir raises for a directory that may
\* not be read or is none, is_dir and is_file for an entry whose status may
\* not be read, and either leaves the try block before a node is added
Listable(f, p) ==
    f[p] = "dir" /\ \A q \in Iterdir(f, p) : ~StatDenied(f, q)

\* refresh_tree: the nodes of the directories, none when the list raises
DirectoryNodes(f, p) ==
    IF Listable(f, p)
    THEN NodesOf("directory", Sorted({q \in Iterdir(f, p) : IsDir(f, q)}))
    ELSE <<>>

\* refresh_tree: the nodes of the files, none when the list raises
FileNodes(f, p) ==
    IF Listable(f, p)
    THEN NodesOf("file", Sorted({q \in Iterdir(f, p) : IsFile(f, q)}))
    ELSE <<>>

\* refresh_tree: the nodes under the root of the Tree.  iterdir raises
\* PermissionError for a directory that may not be read, which is caught,
\* and another OSError for a path that is not a directory, which is not:
\* then the tree keeps the nodes added so far
RefreshTree(f, p) ==
    [nodes |-> ParentNode(p) \o DirectoryNodes(f, p) \o FileNodes(f, p),
     raised |-> f[p] \in {"absent", "file"}]

\* a message the tree posts
Message(name, p) == [name |-> name, path |-> p]

NoMessage == Message("none", Root)

\* an operation of the tree: its name, the type and path of the node or the
\* path it was given, whether it listed the directory, whether it raised,
\* and the message it posted
TreeOperation(name, type, p, listed, raised, posted) ==
    [name |-> name, type |-> type, path |-> p, listed |-> listed,
     raised |-> raised, posted |-> posted]

NoTreeOperation == TreeOperation("none", "none", Root, FALSE, FALSE, NoMessage)

\* what an operation of the tree finds
TreeState ==
    [current_path |-> current_path, nodes |-> nodes, fs |-> fs,
     tree_op |-> tree_op]

(***************************************************************************)
(* MarkdownEditor: the session state of the application.                   *)
(***************************************************************************)
\* python: c.isalnum(), for the characters that occur here
IsAlnum(c) == c \notin (NonWordChars \cup {"_", NL})

\* MarkdownFormatter.get_current_word: the first while loop
RECURSIVE WordStart(_, _)
WordStart(text, start) ==
    IF start > 0 /\ IsAlnum(text[start]) THEN WordStart(text, start - 1)
    ELSE start

\* MarkdownFormatter.get_current_word: the second while loop
RECURSIVE WordEnd(_, _)
WordEnd(text, end) ==
    IF end < Len(text) /\ IsAlnum(text[end + 1]) THEN WordEnd(text, end + 1)
    ELSE end

\* MarkdownFormatter.get_current_word(text, cursor_pos): the word
GetCurrentWord(text, cursor_pos) ==
    IF WordStart(text, cursor_pos) < WordEnd(text, cursor_pos)
    THEN SubSeq(text, WordStart(text, cursor_pos) + 1,
                WordEnd(text, cursor_pos))
    ELSE <<>>

\* pathlib: path.name
PathName(p) == p[Len(p)]

\* the paths of the files of a session: a.md and b.md in the working
\* directory
FileA == WorkDir \o << <<"a", ".", "m", "d">> >>
FileB == WorkDir \o << <<"b", ".", "m", "d">> >>
Paths == {FileA, FileB}

\* python: None, for current_file
NoFile == <<>>

\* further files the file tree shows: c.MD, e.py and .md
FileUpper == WorkDir \o << <<"c", ".", "M", "D">> >>
FilePy == WorkDir \o << <<"e", ".", "p", "y">> >>
FileHidden == WorkDir \o << <<".", "m", "d">> >>
Selectable == Paths \cup {FileUpper, FilePy, FileHidden}

\* the files on disk when the session starts
InitialFiles ==
    [p \in Selectable |->
        IF p = FileA THEN <<"h", "i">>
        ELSE IF p = FileB THEN <<"a", NL, "b">> ELSE <<"x">>]

\* python: s.rfind("."), counted from 1, and 0 when there is none
RECURSIVE RFindDot(_)
RFindDot(s) ==
    IF s = <<>> THEN 0
    ELSE IF s[Len(s)] = "." THEN Len(s)
    ELSE RFindDot(SubSeq(s, 1, Len(s) - 1))

\* pathlib: path.suffix, the name from its last dot on unless that dot is
\* the first or the last character
Suffix(p) ==
    IF 1 < RFindDot(PathName(p)) /\ RFindDot(PathName(p)) < Len(PathName(p))
    THEN SubSeq(PathName(p), RFindDot(PathName(p)), Len(PathName(p)))
    ELSE <<>>

\* LowerChar for a comparison that tells upper case from lower case
SameChar(c) == c

\* python: c.lower(), for the characters of the names
LowerChar(c) ==
    CASE c = "M" -> "m"
      [] c = "D" -> "d"
      [] OTHER -> c

\* python: s.lower()
Lower(s) == [i \in 1..Len(s) |-> LowerChar(s[i])]

\* on_file_selected: [".md", ".markdown", ".txt", ".text"]
OpenedSuffixes ==
    {<<".", "m", "d">>, <<".", "m", "a", "r", "k", "d", "o", "w", "n">>,
     <<".", "t", "x", "t">>, <<".", "t", "e", "x", "t">>}

\* on_file_selected: file_path.suffix.lower() in [...]
SuffixOpened(p) == Lower(Suffix(p)) \in OpenedSuffixes

\* the text the editor is composed with (the start of the welcome text)
WelcomeText == << <<"#", " ", "W">> >>

\* action_new_file: "# New Document\n\n"
NewDocument ==
    << <<"#", " ", "N", "e", "w", " ", "D", "o", "c", "u", "m", "e", "n",
         "t">>, <<>>, <<>> >>

\* "Untitled"
Untitled == <<"U", "n", "t", "i", "t", "l", "e", "d">>

\* Title for a title that does not show the modified flag
TitleUnstarred(file, modified) ==
    IF file # NoFile THEN PathName(file) ELSE Untitled

\* update_title: the subtitle for a file and a modified flag
Title(file, modified) ==
    (IF modified THEN <<"*">> ELSE <<>>)
    \o (IF file # NoFile THEN PathName(file) ELSE Untitled)

\* SetText for a text area that keeps its document
SetTextKeeping(e, content) == e

\* TextArea.text = content: the document is replaced, the edit history
\* cleared and the cursor put at the start
SetText(e, content) ==
    [e EXCEPT !.lines = content, !.selection = Cursor(<<0, 0>>),
              !.undo_stack = <<>>, !.redo_stack = <<>>]

\* the status messages a handler shows while it runs: the application has
\* no status line, and no branch of open_file_path, save_current_file or
\* save_file_as shows, logs or raises anything
StatusMessages(name, ok) == {}

\* an operation: its name, the path it was given, whether its file access
\* succeeded, what it returned, and the status messages it showed
Operation(name, path, ok, result) ==
    [name |-> name, path |-> path, ok |-> ok, result |-> result,
     status |-> StatusMessages(name, ok)]

NoOperation == Operation("none", NoFile, TRUE, "none")

\* python: the bool a save returns
Returned(b) == IF b THEN "True" ELSE "False"

\* what an operation finds
Session ==
    [lines |-> lines, current_file |-> current_file,
     is_modified |-> is_modified, preview_mode |-> preview_mode,
     changed |-> changed, files |-> files, op |-> op]

(***************************************************************************)
(* The status line of the test suite (src/tests/test_suite.py): a          *)
(* MarkdownEditor with a status bar and a VimTextArea whose messages it    *)
(* handles at once.  Texts are sequences of characters.                    *)
(***************************************************************************)
StatusInsert == <<"I", "N", "S", "E", "R", "T">>
StatusNormal == <<"N", "O", "R", "M", "A", "L">>
NoStatus == <<>>
Ready == <<"R", "e", "a", "d", "y">>
VimModeEnabled == <<"V", "i", "m", " ", "m", "o", "d", "e", " ", "e", "n", "a", "b", "l", "e", "d">>
VimModeDisabled == <<"V", "i", "m", " ", "m", "o", "d", "e", " ", "d", "i", "s", "a", "b", "l", "e", "d">>

\* f" [{self.vim_status}]"
Indicator(status) == <<" ", "[">> \o status \o <<"]">>

\* where " [" first starts in s at or after i, 0 if nowhere
RECURSIVE FindSeparator(_, _)
FindSeparator(s, i) ==
    IF i + 1 > Len(s) THEN 0
    ELSE IF s[i] = " " /\ s[i + 1] = "[" THEN i
    ELSE FindSeparator(s, i + 1)

\* current_status.split(" [")[0]
SplitFirst(s) ==
    IF FindSeparator(s, 1) = 0 THEN s
    ELSE SubSeq(s, 1, FindSeparator(s, 1) - 1)

\* MarkdownEditor.update_status
UpdateStatus(e, message) ==
    [e EXCEPT !.status_bar =
        message \o (IF e.vim_mode /\ e.vim_status # NoStatus
                        THEN Indicator(e.vim_status)
                    ELSE IF e.vim_mode THEN Indicator(<<"V", "I", "M">>)
                    ELSE <<>>)]

\* MarkdownEditor._handle_vim_mode_changed
HandleVimModeChanged(e, status) ==
    IF e.vim_mode /\ status # NoStatus
        THEN UpdateStatus([e EXCEPT !.vim_status = status],
                          SplitFirst(e.status_bar))
        ELSE [e EXCEPT !.vim_status = status]

\* VimTextArea._update_vim_status; post_message calls the handler
UpdateVimStatus(e, command, status) ==
    HandleVimModeChanged(
        [e EXCEPT !.text_editor.vim_command_mode = command,
                  !.text_editor.vim_status = status],
        status)

\* VimTextArea.enable_vim_mode
EnableVimMode(e, enabled) ==
    HandleVimModeChanged(
        [e EXCEPT !.text_editor.vim_mode = enabled,
                  !.text_editor.vim_command_mode =
                      (IF enabled THEN FALSE ELSE @),
                  !.text_editor.vim_status =
                      (IF enabled THEN StatusInsert ELSE NoStatus)],
        IF enabled THEN StatusInsert ELSE NoStatus)

\* VimTextArea.simulate_key_press
SimulateKeyPress(e, k) ==
    IF ~e.text_editor.vim_mode THEN e
    ELSE IF k = "escape"
        THEN IF ~e.text_editor.vim_command_mode
                 THEN UpdateVimStatus(e, TRUE, StatusNormal)
                 ELSE e
    ELSE IF e.text_editor.vim_command_mode /\ k \in {"i", "a", "o"}
        THEN UpdateVimStatus(e, FALSE, StatusInsert)
    ELSE e

\* MarkdownEditor.action_toggle_vim
ToggleVim(e) ==
    IF ~e.vim_mode
        THEN UpdateStatus(EnableVimMode([e EXCEPT !.vim_mode = TRUE], TRUE),
                          VimModeEnabled)
        ELSE UpdateStatus(
                 [EnableVimMode([e EXCEPT !.vim_mode = FALSE], FALSE)
                     EXCEPT !.vim_status = NoStatus],
                 VimModeDisabled)

\* MarkdownEditor.__init__ and VimTextArea.__init__ of the test suite
MockEditor ==
    [vim_mode |-> FALSE, vim_status |-> NoStatus, status_bar |-> Ready,
     text_editor |-> [vim_mode |-> FALSE, vim_command_mode |-> FALSE,
                      vim_status |-> NoStatus]]

\* the status-line model before anything was done with it
StatusIdle ==
    status_line = [editor |-> MockEditor, message |-> Ready,
                   name |-> "none", key |-> "none", found |-> MockEditor,
                   steps |-> 0]

\* no call of format_text is under way
FormatterIdle ==
    format_call = [format_type |-> "none", selected_text |-> <<>>,
                   returned |-> FALSE, result |-> <<>>]

\* the file tree before it is mounted
TreeIdle ==
    /\ current_path = WorkDir
    /\ nodes = <<>>
    /\ fs = FullTree
    /\ tree_op = NoTreeOperation
    /\ tree_was = TreeState
    /\ current_directory = WorkDir

RestIdle == FormatterIdle /\ TreeIdle /\ StatusIdle

\* MarkdownEditor.__init__ and on_mount
AppConstructed ==
    /\ current_file = NoFile
    /\ is_modified = FALSE
    /\ preview_mode = FALSE
    /\ editor_content = << <<>> >>
    /\ sub_title = Untitled
    /\ changed = 0
    /\ files = InitialFiles
    /\ op = NoOperation
    /\ was = Session

(***************************************************************************)
(* The state machine.  key, prevented and branch record the last key event *)
(* and pre the mode, the document and the selection it found.              *)
(***************************************************************************)
Editor ==
    [lines |-> lines, selection |-> selection, vim_mode |-> vim_mode,
     undo_stack |-> undo_stack, redo_stack |-> redo_stack]

Observed(e) ==
    [vim_mode |-> e.vim_mode, lines |-> e.lines, selection |-> e.selection]

\* the texts an editor is constructed with
NewDocs == { <<<<>>>>, <<<<"h", "i">>, <<>>>> }

\* the documents of a session under way
SessionDocs ==
    { <<<<>>>>,
      <<<<"h", "e", "l", "l", "o">>>>,
      <<<<"a", " ", "b">>, <<"c">>>>,
      <<<<" ", "x">>>> }

\* VimTextArea.__init__: the text given, the cursor at the start, no edit
\* made yet, the mode INSERT
Init ==
    /\ lines \in NewDocs
    /\ selection = Cursor(<<0, 0>>)
    /\ vim_mode = "INSERT"
    /\ undo_stack = <<>>
    /\ redo_stack = <<>>
    /\ key = "none"
    /\ prevented = FALSE
    /\ branch = "none"
    /\ pre = [vim_mode |-> "INSERT", lines |-> lines,
              selection |-> Cursor(<<0, 0>>)]
    /\ nkeys = 0
    /\ AppConstructed
    /\ RestIdle

\* a session under way: any document, any mode, any selection (a pointer
\* drag selects in every mode); in NORMAL mode with the cursor placed, an edit
\* that can be undone or redone may have been made
InitSession ==
    /\ lines \in SessionDocs
    /\ vim_mode \in Modes
    /\ \E a \in Locations(lines), b \in Locations(lines) :
           selection = [start |-> a, end |-> b]
    /\ \/ undo_stack = <<>> /\ redo_stack = <<>>
       \/ /\ vim_mode = "NORMAL"
          /\ selection.start = selection.end
          /\ \E d \in SessionDocs \ {lines} :
                 LET s == [lines |-> d, selection |-> Cursor(<<0, 0>>)]
                 IN  \/ undo_stack = <<s>> /\ redo_stack = <<>>
                     \/ undo_stack = <<>> /\ redo_stack = <<s>>
    /\ key = "none"
    /\ prevented = FALSE
    /\ branch = "none"
    /\ pre = [vim_mode |-> vim_mode, lines |-> lines, selection |-> selection]
    /\ nkeys = 0
    /\ AppConstructed
    /\ RestIdle

\* the outcome r of key k becomes the state
Deliver(r, k) ==
    /\ lines' = r.e.lines
    /\ selection' = r.e.selection
    /\ vim_mode' = r.e.vim_mode
    /\ undo_stack' = r.e.undo_stack
    /\ redo_stack' = r.e.redo_stack
    /\ key' = k
    /\ prevented' = r.prevented
    /\ branch' = r.branch
    /\ pre' = Observed(Editor)
    /\ nkeys' = nkeys + 1

\* a key event: VimTextArea.on_key, then the base class's handler
KeyEvent(k, smart) == Deliver(Dispatch(Editor, k, smart), k)

\* a pointer event of the base class: a click places the cursor (a = b), a
\* drag selects from a to b; on_key is not involved
Select(a, b) ==
    /\ selection' = [start |-> a, end |-> b]
    /\ key' = "pointer"
    /\ prevented' = FALSE
    /\ branch' = "none"
    /\ pre' = Observed(Editor)
    /\ nkeys' = nkeys + 1
    /\ UNCHANGED <<lines, vim_mode, undo_stack, redo_stack>>

\* the widget on its own: the application's state is not involved
Pointer(a, b) == nkeys < MaxSteps /\ Select(a, b) /\ UNCHANGED <<appvars, restvars>>

Key(k, smart) ==
    nkeys < MaxSteps /\ KeyEvent(k, smart) /\ UNCHANGED <<appvars, restvars>>

SessionKey(k, smart) ==
    nkeys < MaxKeys /\ KeyEvent(k, smart) /\ UNCHANGED <<appvars, restvars>>

Next ==
    \/ \E k \in Keys, smart \in BOOLEAN : Key(k, smart)
    \/ \E a \in Locations(lines), b \in Locations(lines) : Pointer(a, b)

NextSession == \E k \in Keys, smart \in BOOLEAN : SessionKey(k, smart)

Spec == Init /\ [][Next]_vars

SpecSession == InitSession /\ [][NextSession]_vars

\* an editor in INSERT mode with the cursor placed and nothing selected
InitInsert ==
    /\ InitSession
    /\ vim_mode = "INSERT"
    /\ selection.start = selection.end
    /\ undo_stack = <<>> /\ redo_stack = <<>>

\* the keys escape and i in turn: escape is the odd key event, i the even one
EscapeKey ==
    /\ nkeys < 2 * MaxRounds /\ nkeys % 2 = 0
    /\ \E smart \in BOOLEAN : KeyEvent("escape", smart)
    /\ UNCHANGED <<appvars, restvars>>

InsertKey ==
    /\ nkeys < 2 * MaxRounds /\ nkeys % 2 = 1
    /\ \E smart \in BOOLEAN : KeyEvent("i", smart)
    /\ UNCHANGED <<appvars, restvars>>

NextEscapeInsert == EscapeKey \/ InsertKey

SpecEscapeInsert == InitInsert /\ [][NextEscapeInsert]_vars

(***************************************************************************)
(* The application: MarkdownEditor with its text area.  An operation is a  *)
(* key or pointer event of the text area, a handler or an action of the    *)
(* application; a Changed message the text area posted is handled later,   *)
(* by on_text_changed.                                                     *)
(***************************************************************************)
\* the keys typed in a session
AppKeys == {"escape", "i", "x", "d", "o", "shift+o", "b"}

\* the formats chosen in the format menu
AppTags == {"bold", "ul", "hr"}

\* compose and on_mount: the text area with the welcome text
EditorMounted ==
    /\ lines = WelcomeText
    /\ selection = Cursor(<<0, 0>>)
    /\ vim_mode = "INSERT"
    /\ undo_stack = <<>>
    /\ redo_stack = <<>>
    /\ key = "none"
    /\ prevented = FALSE
    /\ branch = "none"
    /\ pre = [vim_mode |-> "INSERT", lines |-> lines,
              selection |-> Cursor(<<0, 0>>)]
    /\ nkeys = 0
    /\ AppConstructed

InitApp == EditorMounted /\ RestIdle

\* the text area becomes e, by a handler of the application
SetEditor(e) ==
    /\ lines' = e.lines
    /\ selection' = e.selection
    /\ vim_mode' = e.vim_mode
    /\ undo_stack' = e.undo_stack
    /\ redo_stack' = e.redo_stack
    /\ key' = "none"
    /\ prevented' = FALSE
    /\ branch' = "none"
    /\ pre' = Observed(Editor)
    /\ nkeys' = nkeys + 1

\* the operation o and the state it found are recorded
Record(o) == op' = o /\ was' = Session

\* Posted for a text area that posts no message
PostedNothing(e) == 0

\* TextArea.edit posts one Changed message for the edit that made e
Posted(e) == IF e.undo_stack # undo_stack THEN 1 ELSE 0

\* a key typed into the text area, which is shown in edit mode only
AppKey(k, smart) ==
    /\ nkeys < MaxOps /\ ~preview_mode
    /\ KeyEvent(k, smart)
    /\ changed' = changed + Posted(Dispatch(Editor, k, smart).e)
    /\ Record(Operation("key", NoFile, TRUE, "none"))
    /\ UNCHANGED <<current_file, is_modified, preview_mode, editor_content,
                   sub_title, files>>
    /\ UNCHANGED restvars

\* the first line selected with the pointer
AppSelect ==
    /\ nkeys < MaxOps /\ ~preview_mode /\ Len(lines[1]) > 0
    /\ Select(<<0, 0>>, <<0, Len(lines[1])>>)
    /\ Record(Operation("pointer", NoFile, TRUE, "none"))
    /\ UNCHANGED <<current_file, is_modified, preview_mode, editor_content,
                   sub_title, changed, files>>
    /\ UNCHANGED restvars

\* MarkdownEditor.on_text_changed: one Changed message is handled
OnTextChanged ==
    /\ changed > 0
    /\ changed' = changed - 1
    /\ is_modified' = (IF ~preview_mode THEN TRUE ELSE is_modified)
    /\ sub_title' = (IF ~preview_mode THEN Title(current_file, TRUE)
                     ELSE sub_title)
    /\ Record(Operation("changed", NoFile, TRUE, "none"))
    /\ UNCHANGED <<lines, selection, vim_mode, undo_stack, redo_stack, key,
                   prevented, branch, pre, nkeys, current_file, preview_mode,
                   editor_content, files>>
    /\ UNCHANGED restvars

\* the operation before was the switch into preview mode, made when no
\* Changed message was waiting
RoundTrip == op.name = "toggle_preview" /\ changed = 0

\* MarkdownEditor.toggle_preview_mode
TogglePreviewMode ==
    /\ nkeys < MaxOps
    /\ SetEditor(IF preview_mode THEN SetText(Editor, editor_content)
                 ELSE Editor)
    /\ changed' = (IF preview_mode THEN changed + 1 ELSE changed)
    /\ editor_content' = (IF preview_mode THEN editor_content ELSE lines)
    /\ preview_mode' = ~preview_mode
    /\ Record(Operation("toggle_preview", NoFile, TRUE,
                        IF preview_mode /\ RoundTrip THEN "round_trip"
                        ELSE "none"))
    /\ UNCHANGED <<current_file, is_modified, sub_title, files>>
    /\ UNCHANGED restvars

\* MarkdownEditor.open_file_path; ok: the file could be read
OpenFilePath(p, ok) ==
    /\ nkeys < MaxOps
    /\ SetEditor(IF ok THEN SetText(Editor, Split(files[p])) ELSE Editor)
    /\ changed' = (IF ok THEN changed + 1 ELSE changed)
    /\ current_file' = (IF ok THEN p ELSE current_file)
    /\ is_modified' = (IF ok THEN FALSE ELSE is_modified)
    /\ sub_title' = (IF ok THEN Title(p, FALSE) ELSE sub_title)
    /\ Record(Operation("open", p, ok, "none"))
    /\ UNCHANGED <<preview_mode, editor_content, files>>
    /\ UNCHANGED restvars

\* Saves for a save that does not look at current_file
SavesUnset(ok) == ok

\* Saves for a save that never writes
SavesNever(ok) == FALSE

\* MarkdownEditor.on_file_selected for the path of a FileSelected message;
\* ok: the file could be read
OnFileSelected(p, ok) ==
    /\ nkeys < MaxOps
    /\ SuffixOpened(p) \/ ok
    /\ SetEditor(IF SuffixOpened(p) /\ ok
                 THEN SetText(Editor, Split(files[p])) ELSE Editor)
    /\ changed' = (IF SuffixOpened(p) /\ ok THEN changed + 1 ELSE changed)
    /\ current_file' = (IF SuffixOpened(p) /\ ok THEN p ELSE current_file)
    /\ is_modified' = (IF SuffixOpened(p) /\ ok THEN FALSE ELSE is_modified)
    /\ sub_title' = (IF SuffixOpened(p) /\ ok THEN Title(p, FALSE)
                     ELSE sub_title)
    /\ Record(Operation("file_selected", p, ok, "none"))
    /\ UNCHANGED <<preview_mode, editor_content, files>>
    /\ UNCHANGED restvars

\* whether save_current_file writes: a file is set and can be written
Saves(ok) == current_file # NoFile /\ ok

\* MarkdownEditor.save_current_file; ok: the file could be written
SaveCurrentFile(ok) ==
    /\ nkeys < MaxOps
    /\ SetEditor(Editor)
    /\ files' = (IF Saves(ok)
                 THEN [files EXCEPT ![current_file] = Join(lines)]
                 ELSE files)
    /\ is_modified' = (IF Saves(ok) THEN FALSE ELSE is_modified)
    /\ sub_title' = (IF Saves(ok) THEN Title(current_file, FALSE)
                     ELSE sub_title)
    /\ Record(Operation("save", current_file, ok, Returned(Saves(ok))))
    /\ UNCHANGED <<current_file, preview_mode, editor_content, changed>>
    /\ UNCHANGED restvars

\* MarkdownEditor.save_file_as; ok: the file could be written; listed:
\* refresh_tree could list the directory of the file tree (it catches a
\* PermissionError only, any other error of the listing leaves it)
SaveFileAs(p, ok, listed) ==
    /\ nkeys < MaxOps
    /\ SetEditor(Editor)
    /\ files' = (IF ok THEN [files EXCEPT ![p] = Join(lines)] ELSE files)
    /\ current_file' = (IF ok THEN p ELSE current_file)
    /\ is_modified' = (IF ok THEN FALSE ELSE is_modified)
    /\ sub_title' = (IF ok THEN Title(p, FALSE) ELSE sub_title)
    /\ Record(Operation("save_as", p, ok, Returned(ok /\ listed)))
    /\ UNCHANGED <<preview_mode, editor_content, changed>>
    /\ UNCHANGED restvars

\* MarkdownEditor.action_new_file
ActionNewFile ==
    /\ nkeys < MaxOps
    /\ SetEditor(EnterInsertMode(SetText(Editor, NewDocument)))
    /\ changed' = changed + 1
    /\ current_file' = NoFile
    /\ is_modified' = TRUE
    /\ sub_title' = Title(NoFile, TRUE)
    /\ Record(Operation("new", NoFile, TRUE, "none"))
    /\ UNCHANGED <<preview_mode, editor_content, files>>
    /\ UNCHANGED restvars

\* handle_format: the text the format is applied to, the selected text or
\* else the word get_current_word finds at the cursor column
FormatInput(e) ==
    IF GetTextRange(e.lines, e.selection.start, e.selection.end) # <<>>
    THEN GetTextRange(e.lines, e.selection.start, e.selection.end)
    ELSE GetCurrentWord(Join(e.lines), CursorLocation(e)[2])

\* handle_format: the selection is replaced, or the text inserted
Formatted(e, formatted_text) ==
    IF GetTextRange(e.lines, e.selection.start, e.selection.end) # <<>>
    THEN Replace(e, formatted_text, e.selection.start, e.selection.end)
    ELSE Insert(e, formatted_text)

\* the None a format menu that was cancelled is dismissed with
NoFormat == "none"

\* handle_format, the callback of the format menu, for the format chosen
HandleFormat(format_type) ==
    /\ SetEditor(IF format_type # NoFormat
                 THEN Formatted(Editor,
                          FormatText(format_type, FormatInput(Editor)))
                 ELSE Editor)
    /\ changed' = (IF format_type # NoFormat THEN changed + 1 ELSE changed)
    /\ is_modified' = (IF format_type # NoFormat THEN TRUE ELSE is_modified)
    /\ sub_title' = (IF format_type # NoFormat THEN Title(current_file, TRUE)
                     ELSE sub_title)
    /\ Record(Operation(IF format_type # NoFormat THEN "format"
                        ELSE "format_cancel",
                        NoFile, TRUE, format_type))
    /\ UNCHANGED <<current_file, preview_mode, editor_content, files>>
    /\ UNCHANGED restvars

\* MarkdownEditor.action_format_text with the format chosen in the menu
ActionFormatText(format_type) == nkeys < MaxOps /\ HandleFormat(format_type)

NextApp ==
    \/ \E k \in AppKeys, smart \in BOOLEAN : AppKey(k, smart)
    \/ AppSelect
    \/ OnTextChanged
    \/ TogglePreviewMode
    \/ \E p \in Paths, ok \in BOOLEAN : OpenFilePath(p, ok)
    \/ \E ok \in BOOLEAN : SaveCurrentFile(ok)
    \/ \E p \in Paths, ok \in BOOLEAN, listed \in BOOLEAN :
           SaveFileAs(p, ok, listed)
    \/ ActionNewFile
    \/ \E format_type \in AppTags : ActionFormatText(format_type)

SpecApp == InitApp /\ [][NextApp]_vars

\* the session when every Changed message is handled before the next
\* operation is accepted
NextHandled == (changed = 0 /\ NextApp) \/ OnTextChanged

SpecHandled == InitApp /\ [][NextHandled]_vars

\* a session in which files are opened from the file tree only: keys and
\* their notifications, new files and FileSelected messages
NextSelect ==
    \/ \E k \in AppKeys, smart \in BOOLEAN : AppKey(k, smart)
    \/ OnTextChanged
    \/ ActionNewFile
    \/ \E p \in Selectable, ok \in BOOLEAN : OnFileSelected(p, ok)

SpecSelect == InitApp /\ [][NextSelect]_vars

(***************************************************************************)
(* MarkdownFormatter.format_text as a function: one call with arguments    *)
(* drawn from the tags of the table, an unknown tag, and bounded texts.    *)
(***************************************************************************)
\* the characters of the texts: a letter and the line separator
TextChars == {"a", NL}

\* the texts of at most MaxText characters
BoundedTexts == UNION {[1..n -> TextChars] : n \in 0..MaxText}

\* "item1\nitem2\nitem3"
ItemsText ==
    <<"i", "t", "e", "m", "1", NL, "i", "t", "e", "m", "2", NL,
      "i", "t", "e", "m", "3">>

\* the texts format_text is called with
Texts == BoundedTexts \cup {Placeholder, ItemsText}

\* the tags format_text is called with: those of its table and another one
Tags == FormatTags \cup {"unknown"}

\* a call of format_text about to be made
InitFormat ==
    /\ EditorMounted
    /\ TreeIdle
    /\ StatusIdle
    /\ \E g \in Tags, t \in Texts :
           format_call = [format_type |-> g, selected_text |-> t,
                          returned |-> FALSE, result |-> <<>>]

\* the call returns
FormatTextCall ==
    /\ ~format_call.returned
    /\ format_call' =
           [format_call EXCEPT
               !.returned = TRUE,
               !.result = FormatText(format_call.format_type,
                                     format_call.selected_text)]
    /\ UNCHANGED <<lines, selection, vim_mode, undo_stack, redo_stack, key,
                   prevented, branch, pre, nkeys, appvars, treevars,
                   statusvars>>

NextFormat == FormatTextCall

SpecFormat == InitFormat /\ [][NextFormat]_vars

(***************************************************************************)
(* The format menu: opened in a session under way and closed with a format *)
(* or cancelled.                                                           *)
(***************************************************************************)
MaxMenuOps == 2

\* what the menu is dismissed with: a format, or None
MenuTags == AppTags \cup {NoFormat}

\* action_format_text: the menu is shown and dismissed with format_type
MenuClosed(format_type) ==
    nkeys < MaxMenuOps /\ HandleFormat(format_type)

NextMenu == \E format_type \in MenuTags : MenuClosed(format_type)

SpecMenu == InitSession /\ [][NextMenu]_vars

(***************************************************************************)
(* The widget with its edit history: the first line selected with the      *)
(* pointer, the keys that format, undo and redo, and the mode keys.         *)
(***************************************************************************)
MaxHistorySteps == 4

\* the keys typed: escape, a format key, undo, redo, v and a motion
HistoryKeys == {"escape", "b", "u", "ctrl+r", "v", "l"}

HistoryKey(k, smart) ==
    /\ nkeys < MaxHistorySteps
    /\ KeyEvent(k, smart)
    /\ UNCHANGED <<appvars, restvars>>

\* the first line selected with the pointer
HistorySelect ==
    /\ nkeys < MaxHistorySteps /\ Len(lines[1]) > 0
    /\ Select(<<0, 0>>, <<0, Len(lines[1])>>)
    /\ UNCHANGED <<appvars, restvars>>

NextHistory ==
    \/ \E k \in HistoryKeys, smart \in BOOLEAN : HistoryKey(k, smart)
    \/ HistorySelect

SpecHistory == Init /\ [][NextHistory]_vars

(***************************************************************************)
(* The status line of the test suite: calls of update_status, vim-mode     *)
(* toggles and simulated key presses, in any order.                        *)
(***************************************************************************)
MaxStatusOps == 5

\* the messages update_status is called with
ErrorCode == <<"E", "r", "r", "o", "r", " ", "[", "c", "o", "d", "e", " ", "1", "2", "3", "]">>
FileSaved == <<"F", "i", "l", "e", " ", "s", "a", "v", "e", "d">>
BaseMessages == {<<>>, Ready, FileSaved, ErrorCode}

\* the keys simulate_key_press is called with
PressedKeys == {"escape", "i", "a", "o", "x"}

InitStatus == EditorMounted /\ RestIdle

\* an operation of the status-line model has been carried out
StatusStep(name, k, e, message) ==
    /\ status_line.steps < MaxStatusOps
    /\ status_line' = [editor |-> e, message |-> message, name |-> name,
                       key |-> k, found |-> status_line.editor,
                       steps |-> status_line.steps + 1]
    /\ UNCHANGED <<lines, selection, vim_mode, undo_stack, redo_stack, key,
                   prevented, branch, pre, nkeys, appvars, fmtvars,
                   treevars>>

\* editor.update_status(message)
UpdateStatusCall(message) ==
    StatusStep("update_status", "none",
               UpdateStatus(status_line.editor, message), message)

\* editor.action_toggle_vim()
ActionToggleVim ==
    StatusStep("toggle_vim", "none", ToggleVim(status_line.editor),
               IF status_line.editor.vim_mode THEN VimModeDisabled
               ELSE VimModeEnabled)

\* editor.text_editor.simulate_key_press(k)
KeyPress(k) ==
    StatusStep("key_press", k, SimulateKeyPress(status_line.editor, k),
               status_line.message)

NextStatus ==
    \/ \E message \in BaseMessages : UpdateStatusCall(message)
    \/ ActionToggleVim
    \/ \E k \in PressedKeys : KeyPress(k)

SpecStatus == InitStatus /\ [][NextStatus]_vars

(***************************************************************************)
(* The file tree: mounted on the working directory, then node selections,  *)
(* calls of navigate_to and refresh_tree, and paths removed by others.     *)
(***************************************************************************)
\* the file systems a run starts with: a and b may be missing, may not be
\* read or may not be examined, the files and the file in a may be missing
InitialTrees ==
    {f \in [Universe -> {"dir", "locked", "denied", "file", "absent"}] :
        /\ f[Root] = "dir" /\ f[WorkDir] = "dir"
        /\ \A p \in Universe \ {Root, WorkDir} :
               /\ p \in FilePaths => f[p] \in {"file", "absent"}
               /\ p \notin FilePaths
                  => f[p] \in {"dir", "locked", "denied", "absent"}
               /\ f[Parent(p)] \in {"absent", "denied"} => f[p] = "absent"}

\* CustomDirectoryTree.__init__ and on_mount
InitTree ==
    /\ EditorMounted
    /\ FormatterIdle
    /\ StatusIdle
    /\ fs \in InitialTrees
    /\ current_path = WorkDir
    /\ nodes = RefreshTree(fs, WorkDir).nodes
    /\ tree_op = TreeOperation("mount", "none", WorkDir, TRUE, FALSE,
                               NoMessage)
    /\ tree_was = [current_path |-> WorkDir, nodes |-> <<>>, fs |-> fs,
                   tree_op |-> NoTreeOperation]
    /\ current_directory = WorkDir

\* an operation of the tree or a change of the file system has happened
TreeStep(o) ==
    /\ nkeys < MaxTreeOps
    /\ nkeys' = nkeys + 1
    /\ tree_op' = o
    /\ tree_was' = TreeState
    /\ UNCHANGED <<lines, selection, vim_mode, undo_stack, redo_stack, key,
                   prevented, branch, pre, appvars, fmtvars, statusvars>>

\* navigate_to: the current path and the nodes after it; is_dir raises for
\* a path whose status may not be read, before anything is assigned
Navigated(p) ==
    IF IsDir(fs, p)
    THEN [current_path |-> p, nodes |-> RefreshTree(fs, p).nodes]
    ELSE [current_path |-> current_path, nodes |-> nodes]

\* CustomDirectoryTree.navigate_to(path)
NavigateTo(p) ==
    /\ current_path' = Navigated(p).current_path
    /\ nodes' = Navigated(p).nodes
    /\ UNCHANGED <<fs, current_directory>>
    /\ TreeStep(TreeOperation("navigate_to", "none", p, IsDir(fs, p),
                              StatDenied(fs, p), NoMessage))

\* MarkdownEditor.on_directory_changed for the message a selection posted
OnDirectoryChanged(directory, message) ==
    IF message.name = "DirectoryChanged" THEN message.path ELSE directory

\* the message on_node_selected posts for the node n: none when navigate_to
\* raised
PostedFor(n) ==
    IF n.type \in {"parent", "directory"}
    THEN IF StatDenied(fs, n.path) THEN NoMessage
         ELSE Message("DirectoryChanged", n.path)
    ELSE Message("FileSelected", n.path)

\* the positions a node of the tree can have
NodeIndexes == 1..Cardinality(Universe)

\* CustomDirectoryTree.on_node_selected for the i-th node of the tree
OnNodeSelected(i) ==
    /\ i \in 1..Len(nodes)
    /\ IF nodes[i].type \in {"parent", "directory"}
       THEN /\ current_path' = Navigated(nodes[i].path).current_path
            /\ nodes' = Navigated(nodes[i].path).nodes
            /\ TreeStep(TreeOperation("select", nodes[i].type,
                    nodes[i].path, IsDir(fs, nodes[i].path),
                    StatDenied(fs, nodes[i].path), PostedFor(nodes[i])))
       ELSE /\ UNCHANGED <<current_path, nodes>>
            /\ TreeStep(TreeOperation("select", nodes[i].type,
                    nodes[i].path, FALSE, FALSE, PostedFor(nodes[i])))
    /\ current_directory' =
           OnDirectoryChanged(current_directory, PostedFor(nodes[i]))
    /\ UNCHANGED fs

\* CustomDirectoryTree.refresh_tree, as save_file_as calls it
Refresh ==
    /\ nodes' = RefreshTree(fs, current_path).nodes
    /\ UNCHANGED <<current_path, fs, current_directory>>
    /\ TreeStep(TreeOperation("refresh", "none", current_path, TRUE,
                              RefreshTree(fs, current_path).raised,
                              NoMessage))

\* whether the path q is p or below p
Below(q, p) == Len(q) >= Len(p) /\ SubSeq(q, 1, Len(p)) = p

\* another program removes the path p and what is below it
Unlink(p) ==
    /\ p # Root /\ fs[p] # "absent"
    /\ fs' = [q \in Universe |-> IF Below(q, p) THEN "absent" ELSE fs[q]]
    /\ UNCHANGED <<current_path, nodes, current_directory>>
    /\ TreeStep(TreeOperation("unlink", "none", p, FALSE, FALSE, NoMessage))

NextTree ==
    \/ \E p \in Universe : NavigateTo(p)
    \/ \E i \in NodeIndexes : OnNodeSelected(i)
    \/ Refresh
    \/ \E p \in Universe : Unlink(p)

SpecTree == InitTree /\ [][NextTree]_vars

\* the application with its file tree: entries are selected while other
\* programs remove paths; navigate_to is called by selections only
NextDirectory ==
    \/ \E i \in NodeIndexes : OnNodeSelected(i)
    \/ \E p \in Universe : Unlink(p)

SpecDirectory == InitTree /\ [][NextDirectory]_vars

(***************************************************************************)
(* Properties.  They are stated of the state a key event leaves behind:    *)
(* key is the key, pre what it found.                                      *)
(***************************************************************************)
NonEmpty(sel) == sel.start # sel.end

\* the motion keys of NORMAL mode
MotionKeys == {"h", "j", "k", "l", "w", "b", "0", "shift+4", "g", "shift+g"}

\* the keys that can change the Buffer in NORMAL mode
NormalEditKeys == {"x", "d", "o", "shift+o", "u", "ctrl+r"}

VisualBranches ==
    {"visual_format", "visual_nav", "visual_exit", "visual_modifier"}

\* the editing state the key found, and the same state in VISUAL mode
PreEditor ==
    [lines |-> pre.lines, selection |-> pre.selection,
     vim_mode |-> pre.vim_mode, undo_stack |-> <<>>, redo_stack |-> <<>>]

PreAsVisual == [PreEditor EXCEPT !.vim_mode = "VISUAL"]

\* the text the key found selected, and the text before and after it
PreTop == TopOf(pre.selection.start, pre.selection.end)
PreBottom == BottomOf(pre.selection.start, pre.selection.end)
PreSelectedText == TextBetween(pre.lines, PreTop, PreBottom)
PreTextBefore == TextBetween(pre.lines, <<0, 0>>, PreTop)
PreTextAfter ==
    TextBetween(pre.lines, PreBottom,
                <<Len(pre.lines) - 1, Len(pre.lines[Len(pre.lines)])>>)

Hello == <<"h", "e", "l", "l", "o">>

\* C1: after any sequence of key events the mode is one of INSERT, NORMAL,
\* VISUAL, and the mode of a newly created editor is INSERT.
C1_ModeInvariant ==
    /\ vim_mode \in Modes
    /\ nkeys = 0 => vim_mode = "INSERT"

\* the keys escape, v have taken a new editor to VISUAL
C1_Witness == nkeys = 2 /\ key = "v" /\ vim_mode = "VISUAL"

\* C2: a key other than escape that arrives with a non-empty selection in
\* INSERT or NORMAL mode is handled by the VISUAL branch of on_key, and leaves
\* exactly what the same key leaves when it arrives in VISUAL mode.
C2_SelectionPromotesToVisual ==
    (key \in Keys \ {"escape"} /\ NonEmpty(pre.selection)
     /\ pre.vim_mode \in {"INSERT", "NORMAL"})
    => /\ branch \in VisualBranches
       /\ \E smart \in BOOLEAN :
              /\ Dispatch(PreAsVisual, key, smart).e.lines = lines
              /\ Dispatch(PreAsVisual, key, smart).e.selection = selection
              /\ Dispatch(PreAsVisual, key, smart).e.vim_mode = vim_mode
              /\ Dispatch(PreAsVisual, key, smart).prevented = prevented
              /\ Dispatch(PreAsVisual, key, smart).branch = branch

\* the key b arrived in INSERT mode with a selection and formatted it
C2_Witness ==
    /\ key = "b" /\ pre.vim_mode = "INSERT" /\ NonEmpty(pre.selection)
    /\ branch = "visual_format" /\ vim_mode = "NORMAL"

C5_InsertForwardsEveryKey ==
    (pre.vim_mode = "INSERT" /\ key \in Keys \ {"escape", "ctrl+c"})
    => ~prevented /\ vim_mode = "INSERT"

\* C5, amended: in INSERT mode with an empty selection every key other than
\* escape and ctrl+c goes to the default handling, never prevented: the
\* Buffer and the cursor are what the base class's handler makes of the key,
\* and the mode stays INSERT.
C5_InsertForwardsWithoutSelection ==
    (pre.vim_mode = "INSERT" /\ ~NonEmpty(pre.selection)
     /\ key \in Keys \ {"escape", "ctrl+c"})
    => /\ ~prevented
       /\ vim_mode = "INSERT"
       /\ lines = TextAreaOnKey(PreEditor, key).lines
       /\ selection = TextAreaOnKey(PreEditor, key).selection

\* the key i, typed in INSERT mode, is in the Buffer
C5_Witness ==
    /\ key = "i" /\ pre.vim_mode = "INSERT" /\ ~NonEmpty(pre.selection)
    /\ ~prevented /\ vim_mode = "INSERT"
    /\ Len(Join(lines)) = Len(Join(pre.lines)) + 1

C7_VisualMotionKeepsBuffer ==
    (pre.vim_mode = "VISUAL" /\ key \in MotionKeys
     /\ branch # "visual_format")
    => vim_mode = "VISUAL" /\ lines = pre.lines

C9_VisualFormatIsFormatter ==
    (branch = "visual_format" /\ KeyTag(key) # "none")
    => lines = ReplaceRange(pre.lines, PreTop, PreBottom,
                            FormatText(KeyTag(key), PreSelectedText)).lines

C11_EscapeThenInsert ==
    /\ lines = pre.lines
    /\ nkeys % 2 = 0 => vim_mode = "INSERT"
    /\ nkeys % 2 = 1 => vim_mode = "NORMAL" /\ pre.vim_mode = "INSERT"
    /\ (nkeys % 2 = 0 /\ nkeys > 0) => pre.vim_mode = "NORMAL" /\ key = "i"

\* escape, i has been typed twice into the Buffer hello
C11_Witness ==
    /\ nkeys = 4 /\ key = "i" /\ pre.vim_mode = "NORMAL"
    /\ vim_mode = "INSERT" /\ lines = <<Hello>>

\* the cursor the key found, and the line it was on
PreRow == pre.selection.end[1]
PreCol == pre.selection.end[2]
PreLine == pre.lines[PreRow + 1]

\* the keys of NORMAL mode that enter INSERT mode without an edit
InsertEntryKeys == {"i", "a", "shift+a", "shift+i"}

\* what i, a, shift+a and shift+i are to leave: INSERT mode, the Buffer as it
\* was, nothing selected, and the cursor where it was (i), one column to the
\* right unless at the end of the line (a), at the end of the line (shift+a),
\* at the start of the line as the toolkit's line-start action places it:
\* column 0 or the first column that holds no space (shift+i)
InsertEntryOutcome ==
    /\ vim_mode = "INSERT"
    /\ lines = pre.lines
    /\ selection.start = selection.end
    /\ selection.end[1] = PreRow
    /\ key = "i" => selection.end[2] = PreCol
    /\ key = "a" => selection.end[2] =
                        (IF PreCol < Len(PreLine) THEN PreCol + 1 ELSE PreCol)
    /\ key = "shift+a" => selection.end[2] = Len(PreLine)
    /\ key = "shift+i" => selection.end[2] \in {0, FirstNonWhitespace(PreLine)}

PreWithEmptyLineAfter(n) ==
    SubSeq(pre.lines, 1, n) \o << <<>> >>
    \o SubSeq(pre.lines, n + 1, Len(pre.lines))

\* what o and shift+o are to leave: one empty line directly after (o) or
\* before (shift+o) the line the cursor was on, every other line as it was,
\* the cursor at column 0 of the new line, nothing selected, the mode INSERT
OpenLineOutcome ==
    /\ vim_mode = "INSERT"
    /\ selection.start = selection.end
    /\ key = "o" => /\ lines = PreWithEmptyLineAfter(PreRow + 1)
                    /\ selection.end = <<PreRow + 1, 0>>
    /\ key = "shift+o" => /\ lines = PreWithEmptyLineAfter(PreRow)
                          /\ selection.end = <<PreRow, 0>>

\* C13 as stated: from NORMAL o inserts exactly one empty line directly after
\* the current line and shift+o exactly one directly before it, whatever the
\* cursor column; the other lines keep content and order, the cursor ends at
\* column 0 of the new line and the mode becomes INSERT.
C13_OpenLine ==
    (pre.vim_mode = "NORMAL" /\ key \in {"o", "shift+o"})
    => OpenLineOutcome

\* C13, amended: the same from NORMAL with an empty selection.
C13_OpenLineWithoutSelection ==
    (pre.vim_mode = "NORMAL" /\ ~NonEmpty(pre.selection)
     /\ key \in {"o", "shift+o"})
    => OpenLineOutcome

\* o, typed with the cursor inside the first of two lines, has opened an
\* empty line between them
C13_Witness ==
    /\ key = "o" /\ pre.vim_mode = "NORMAL" /\ Len(pre.lines) = 2
    /\ pre.selection = Cursor(<<0, 1>>)
    /\ lines = <<pre.lines[1], <<>>, pre.lines[2]>>
    /\ selection = Cursor(<<1, 0>>) /\ vim_mode = "INSERT"

Without(s, n) == SubSeq(s, 1, n - 1) \o SubSeq(s, n + 1, Len(s))

\* the Buffer the key found without the character at the cursor
PreWithoutCharAtCursor ==
    [pre.lines EXCEPT ![PreRow + 1] = Without(PreLine, PreCol + 1)]

\* what x is to leave: the Buffer without the one character at the cursor, or
\* the Buffer as it was when the cursor is at the end of its line
DeleteCharOutcome ==
    /\ vim_mode = "NORMAL"
    /\ lines = (IF PreCol < Len(PreLine) THEN PreWithoutCharAtCursor
                ELSE pre.lines)

EdgeMotionOutcome ==
    /\ (key = "h" /\ PreCol = 0)
       => /\ lines = pre.lines /\ vim_mode = "NORMAL"
          /\ selection =
                 (IF PreRow > 0
                  THEN Cursor(<<PreRow - 1, Len(pre.lines[PreRow])>>)
                  ELSE Cursor(pre.selection.end))
    /\ (key = "l" /\ PreCol = Len(PreLine))
       => /\ lines = pre.lines /\ vim_mode = "NORMAL"
          /\ selection =
                 (IF PreRow < Len(pre.lines) - 1
                  THEN Cursor(<<PreRow + 1, 0>>)
                  ELSE Cursor(pre.selection.end))
    /\ (key = "shift+g" /\ pre.lines = << <<>> >>)
       => /\ lines = pre.lines /\ vim_mode = "NORMAL"
          /\ selection = Cursor(<<0, 0>>)

\* C16 as stated: in NORMAL mode h at column 0 goes to the end of the
\* previous line or does nothing, l at the end of a line goes to column 0 of
\* the next line or does nothing, shift+g on an empty Buffer does nothing.
C16_EdgeMotionsClamp == pre.vim_mode = "NORMAL" => EdgeMotionOutcome

\* C16, amended: the same in NORMAL mode with an empty selection.
C16_EdgeMotionsClampWithoutSelection ==
    (pre.vim_mode = "NORMAL" /\ ~NonEmpty(pre.selection))
    => EdgeMotionOutcome

\* h at column 0 of the second line has gone to the end of the first
C16_Witness ==
    /\ key = "h" /\ pre.vim_mode = "NORMAL" /\ Len(pre.lines) = 2
    /\ pre.selection = Cursor(<<1, 0>>)
    /\ selection = Cursor(<<0, 3>>) /\ lines = pre.lines
    /\ vim_mode = "NORMAL"

\* C17: a change made to the Buffer while in preview mode is still the Buffer
\* content after togglePreview has switched back to edit mode.
C17_PreviewKeepsBuffer ==
    (op.name = "toggle_preview" /\ was.preview_mode)
    => lines = was.lines

\* C18: after openFile(path) has succeeded and the notification it caused has
\* been handled, the Buffer equals the file's contents, FileIdentity is path
\* and DirtyFlag is false.
C18_OpenLoadsFileClean ==
    (op.name = "changed" /\ changed = 0
     /\ was.op.name = "open" /\ was.op.ok)
    => /\ lines = Split(files[was.op.path])
       /\ current_file = was.op.path
       /\ ~is_modified

C20_FailureChangesNothing ==
    /\ (op.name \in {"open", "save", "save_as"} /\ ~op.ok)
       => /\ current_file = was.current_file
          /\ is_modified = was.is_modified
          /\ lines = was.lines
    /\ (op.name \in {"save", "save_as"} /\ op.result = "False")
       => /\ ~op.ok \/ (op.name = "save" /\ was.current_file = NoFile)
          /\ current_file = was.current_file
          /\ is_modified = was.is_modified

\* C21: every failed openFile, save or saveAs is reported to the user through
\* a status message; a failure is never silent.
C21_FailureReported ==
    (op.name \in {"open", "save", "save_as"}
     /\ (~op.ok \/ op.result = "False"))
    => op.status # {}

\* C22: save() with no FileIdentity set returns failure, writes nothing, and
\* leaves DirtyFlag, FileIdentity and the Buffer unchanged.
C22_SaveWithoutFile ==
    (op.name = "save" /\ was.current_file = NoFile)
    => /\ op.result = "False"
       /\ files = was.files
       /\ is_modified = was.is_modified
       /\ current_file = NoFile
       /\ lines = was.lines

\* save() was called with no FileIdentity and a true DirtyFlag, and the
\* write would have succeeded
C22_Witness ==
    /\ op.name = "save" /\ op.ok /\ was.current_file = NoFile
    /\ was.is_modified /\ is_modified

C24_NewFileResets ==
    /\ op.name = "new"
       => lines = NewDocument /\ current_file = NoFile /\ is_modified
    /\ (op.name = "changed" /\ was.op.name = "new")
       => lines = NewDocument /\ current_file = NoFile /\ is_modified

\* newFile() was called in a session with a file open and a false DirtyFlag
C24_Witness ==
    /\ op.name = "new" /\ was.current_file # NoFile /\ ~was.is_modified
    /\ was.lines # NewDocument /\ lines = NewDocument

\* the lines of the text format_text was called with
CallLines == Split(format_call.selected_text)

\* C25: for every tag of the table other than hr and table, format(tag, "")
\* equals format(tag, "text"); for bold it is **text**.
C25_EmptyIsPlaceholder ==
    (format_call.returned /\ format_call.selected_text = <<>>
     /\ format_call.format_type \in FormatTags \ {"hr", "table"})
    => /\ format_call.result =
              FormatText(format_call.format_type, Placeholder)
       /\ format_call.format_type = "bold"
          => format_call.result = <<"*", "*", "t", "e", "x", "t", "*", "*">>

\* format_text has returned from a call with the tag bold and the empty text
C25_Witness ==
    /\ format_call.returned /\ format_call.selected_text = <<>>
    /\ format_call.format_type = "bold"
    /\ format_call.result = <<"*", "*", "t", "e", "x", "t", "*", "*">>

\* C26 as stated: format returns a string for every tag and every text, and
\* for a tag that is not in its table it returns the input text unchanged.
C26_TotalAndUnknownUnchanged ==
    format_call.returned
    => /\ format_call.result \in Seq(STRING)
       /\ format_call.format_type \notin FormatTags
          => format_call.result = format_call.selected_text

\* C26, amended: format returns a string for every tag and every text; for a
\* tag that is not in its table it returns a non-empty input text unchanged,
\* and the placeholder for the empty text.
C26_TotalAndUnknownUnchangedUnlessEmpty ==
    format_call.returned
    => /\ format_call.result \in Seq(STRING)
       /\ (format_call.format_type \notin FormatTags
           /\ format_call.selected_text # <<>>)
          => format_call.result = format_call.selected_text
       /\ (format_call.format_type \notin FormatTags
           /\ format_call.selected_text = <<>>)
          => format_call.result = Placeholder

\* format_text has returned from a call with an unknown tag and a text of
\* two lines
C26_Witness ==
    /\ format_call.returned /\ format_call.format_type = "unknown"
    /\ format_call.selected_text = <<"a", NL, "a">>
    /\ format_call.result = <<"a", NL, "a">>

\* C27 as stated: format(hr, t) is --- for every t, and format(table, t) is
\* the same for every t (what it is for the empty text).
C27_HrAndTableIgnoreText ==
    format_call.returned
    => /\ format_call.format_type = "hr"
          => format_call.result = <<"-", "-", "-">>
       /\ format_call.format_type = "table"
          => format_call.result = FormatText("table", <<>>)

\* C27, amended: format(hr, t) is --- for every t; format(table, t) is a
\* fixed table of two columns and two rows whose first header cell is t, or
\* the placeholder when t is empty.
C27_HrIgnoresTextTableHeadsWithIt ==
    format_call.returned
    => /\ format_call.format_type = "hr"
          => format_call.result = <<"-", "-", "-">>
       /\ format_call.format_type = "table"
          => format_call.result =
                 <<"|", " ">>
                 \o (IF format_call.selected_text = <<>> THEN Placeholder
                     ELSE format_call.selected_text)
                 \o TableRest

\* format_text has returned from a call with the tag table and the text a
C27_Witness ==
    /\ format_call.returned /\ format_call.format_type = "table"
    /\ format_call.selected_text = <<"a">>
    /\ format_call.result # FormatText("table", <<>>)

\* the lines a list or quote format makes of the lines ls
Prefixed(tag, ls) ==
    [i \in 1..Len(ls) |->
        (CASE tag = "ul" -> <<"-", " ">>
           [] tag = "ol" -> Str(i) \o <<".", " ">>
           [] tag = "blockquote" -> <<">", " ">>)
        \o ls[i]]

\* "1. item1\n2. item2\n3. item3"
NumberedItems ==
    <<"1", ".", " ", "i", "t", "e", "m", "1", NL,
      "2", ".", " ", "i", "t", "e", "m", "2", NL,
      "3", ".", " ", "i", "t", "e", "m", "3">>

\* C28 as stated: for every text t, the lines of format(ul, t), format(ol, t)
\* and format(blockquote, t) are the lines of t in their order, prefixed by
\* "- ", by the 1-based index and ". ", and by "> "; the three items of the
\* example are numbered 1, 2, 3.
C28_ListsPrefixEachLine ==
    (format_call.returned
     /\ format_call.format_type \in {"ul", "ol", "blockquote"})
    => /\ Split(format_call.result)
              = Prefixed(format_call.format_type, CallLines)
       /\ (format_call.format_type = "ol"
           /\ format_call.selected_text = ItemsText)
          => format_call.result = NumberedItems

\* C28, amended: the same for every non-empty text t; for the empty text
\* the one line of the output is the prefixed placeholder.
C28_ListsPrefixEachLineOfNonEmpty ==
    (format_call.returned
     /\ format_call.format_type \in {"ul", "ol", "blockquote"})
    => /\ format_call.selected_text # <<>>
          => Split(format_call.result)
                 = Prefixed(format_call.format_type, CallLines)
       /\ format_call.selected_text = <<>>
          => Split(format_call.result)
                 = Prefixed(format_call.format_type, <<Placeholder>>)
       /\ (format_call.format_type = "ol"
           /\ format_call.selected_text = ItemsText)
          => format_call.result = NumberedItems

\* format_text has returned from a call with the tag ol and the three items
C28_Witness ==
    /\ format_call.returned /\ format_call.format_type = "ol"
    /\ format_call.selected_text = ItemsText /\ Len(CallLines) = 3
    /\ format_call.result = NumberedItems

\* the place of a node's type in a listing
NodeRank(n) ==
    CASE n.type = "parent" -> 0
      [] n.type = "directory" -> 1
      [] n.type = "file" -> 2

\* the name of a node's path
NodeName(n) == n.path[Len(n.path)]

\* the paths of the nodes of one type
NodePaths(type) ==
    {nodes[i].path : i \in {j \in 1..Len(nodes) : nodes[j].type = type}}

\* the paths directly in the current directory
Entries == {q \in Universe : q # current_path /\ Parent(q) = current_path}

\* the listing of the example: the parent link, a, b, y.txt, z.md
ExampleListing ==
    << [type |-> "parent", path |-> Root],
       [type |-> "directory", path |-> WorkDir \o << <<"a">> >>],
       [type |-> "directory", path |-> WorkDir \o << <<"b">> >>],
       [type |-> "file", path |-> WorkDir \o << <<"y", ".", "t", "x", "t">> >>],
       [type |-> "file", path |-> WorkDir \o << <<"z", ".", "m", "d">> >>] >>

C30_SelectNavigates ==
    /\ (tree_op.name = "select" /\ tree_op.type \in {"parent", "directory"})
       => /\ current_path = tree_op.path
          /\ tree_op.listed
          /\ nodes = RefreshTree(fs, tree_op.path).nodes
    /\ (tree_op.name \in {"select", "navigate_to"} /\ tree_op.type # "file"
        /\ tree_was.tree_op.name \in {"select", "navigate_to"}
        /\ tree_was.tree_op.type # "file"
        /\ tree_op.path = tree_was.tree_op.path)
       => current_path = tree_was.current_path /\ nodes = tree_was.nodes
    /\ (tree_op.name = "select" /\ tree_op.type = "file")
       => /\ tree_op.posted = Message("FileSelected", tree_op.path)
          /\ current_path = tree_was.current_path
          /\ nodes = tree_was.nodes

\* a permission failure happens while the current directory is listed: it may
\* not be read, or the status of one of its entries may not be read
PermissionFailure ==
    \/ fs[current_path] = "locked"
    \/ fs[current_path] = "dir" /\ \E q \in Entries : fs[q] = "denied"

\* the entries of the current directory that can be read
ReadableEntries ==
    IF fs[current_path] = "dir"
    THEN {q \in Entries : fs[q] \in {"dir", "locked", "file"}}
    ELSE {}

\* C31: a permission failure while listing a directory is never surfaced as
\* an error: the listing completes, only the entries that could not be read
\* are omitted, the parent-link entry is still present, and the current path
\* is unchanged.
C31_PermissionFailureOmitsUnreadable ==
    (tree_op.listed /\ PermissionFailure)
    => /\ ~tree_op.raised
       /\ current_path = tree_op.path
       /\ tree_op.name = "refresh" => current_path = tree_was.current_path
       /\ current_path # Root
          => Len(nodes) > 0 /\ nodes[1] = [type |-> "parent",
                                           path |-> Parent(current_path)]
       /\ NodePaths("directory") \cup NodePaths("file") = ReadableEntries

\* the name the subtitle shows for the file of the session
ShownName ==
    CASE current_file = NoFile -> Untitled
      [] current_file = FileA -> <<"a", ".", "m", "d">>
      [] current_file = FileB -> <<"b", ".", "m", "d">>
      [] current_file = FileUpper -> <<"c", ".", "M", "D">>

\* C32: after every session operation (openFile, save, saveAs, newFile,
\* buffer-changed notification, format action) the window subtitle is the file
\* name of FileIdentity, or Untitled when FileIdentity is unset, prefixed by *
\* exactly when DirtyFlag is true.
C32_SubtitleShowsFileAndDirty ==
    op.name \in {"open", "save", "save_as", "new", "changed", "format"}
    => sub_title = (IF is_modified THEN <<"*">> ELSE <<>>) \o ShownName

\* a.md was opened and the Buffer edited: the subtitle is *a.md
C32_Witness ==
    /\ op.name = "changed" /\ current_file = FileA /\ is_modified
    /\ ~was.is_modified
    /\ sub_title = <<"*", "a", ".", "m", "d">>

\* C33: a file-selected notification opens the file only when its suffix,
\* compared case-insensitively, is one of .md, .markdown, .txt, .text (of the
\* files here: a.md, b.md and c.MD, and neither e.py nor .md, which has no
\* suffix); for any other file the Buffer, FileIdentity and DirtyFlag are
\* unchanged.
C33_FileSelectedOpensBySuffix ==
    op.name = "file_selected"
    => /\ (op.path \in {FileA, FileB, FileUpper} /\ op.ok)
          => /\ current_file = op.path /\ ~is_modified
             /\ lines = Split(was.files[op.path])
       /\ op.path \notin {FileA, FileB, FileUpper}
          => /\ lines = was.lines
             /\ current_file = was.current_file
             /\ is_modified = was.is_modified
             /\ changed = was.changed

\* c.MD was selected in the file tree and opened over a modified Buffer
C33_Witness ==
    /\ op.name = "file_selected" /\ op.path = FileUpper /\ op.ok
    /\ current_file = FileUpper /\ was.is_modified /\ ~is_modified
    /\ lines = <<<<"x">>>> /\ was.lines # lines

\* the text the status-line model is expected to show: the message last
\* given, followed by the vim status in brackets while vim mode is enabled
Shown(message, e) ==
    message \o (IF e.vim_mode THEN Indicator(e.vim_status) ELSE <<>>)

\* C34: in the status-line model of the test suite the status bar always
\* shows the message last given followed by " [INSERT]" or " [NORMAL]",
\* the current vim status, while vim mode is enabled and the message alone
\* while it is disabled; enabling vim mode starts in INSERT
C34_StatusBarShowsMessageAndMode ==
    /\ status_line.editor.status_bar
           = Shown(status_line.message, status_line.editor)
    /\ status_line.editor.vim_mode
           => status_line.editor.vim_status \in {StatusInsert, StatusNormal}
    /\ (status_line.name = "toggle_vim" /\ status_line.editor.vim_mode)
           => status_line.editor.vim_status = StatusInsert

\* the parts of C34 that do not depend on the message: the indicator shown
\* is that of the current vim status, and enabling starts in INSERT
C34_IndicatorFollowsMode ==
    /\ status_line.editor.vim_mode
           => /\ status_line.editor.vim_status \in {StatusInsert, StatusNormal}
              /\ Len(status_line.editor.status_bar) >= 9
              /\ SubSeq(status_line.editor.status_bar,
                        Len(status_line.editor.status_bar) - 8,
                        Len(status_line.editor.status_bar))
                     = Indicator(status_line.editor.vim_status)
    /\ ~status_line.editor.vim_mode
           => status_line.editor.status_bar = status_line.message
    /\ (status_line.name = "toggle_vim" /\ status_line.editor.vim_mode)
           => status_line.editor.vim_status = StatusInsert

\* C35: in the status-line model of the test suite a key press that changes
\* the vim status while vim mode is enabled keeps the whole message last
\* given to update_status, brackets included, and changes only the indicator
C35_ModeChangeKeepsBaseMessage ==
    (/\ status_line.name = "key_press"
     /\ status_line.found.vim_mode
     /\ status_line.editor.vim_status # status_line.found.vim_status)
    => status_line.editor.status_bar
           = status_line.message \o Indicator(status_line.editor.vim_status)

\* a mode change with a message that holds no " [" keeps the message
C35_PlainMessageKept ==
    (/\ status_line.name = "key_press"
     /\ status_line.found.vim_mode
     /\ status_line.editor.vim_status # status_line.found.vim_status
     /\ FindSeparator(status_line.message, 1) = 0)
    => status_line.editor.status_bar
           = status_line.message \o Indicator(status_line.editor.vim_status)

\* C36: once every Changed message has been handled, a session whose
\* DirtyFlag is false and whose FileIdentity is set holds in its Buffer
\* the content last read from or written to that file
C36_CleanBufferEqualsFile ==
    (changed = 0 /\ ~is_modified /\ current_file # NoFile)
    => lines = Split(files[current_file])

\* the Changed message of a switch back to edit mode, made right after the
\* switch into preview mode, has been handled
RoundTripDone ==
    /\ op.name = "changed"
    /\ was.op.name = "toggle_preview"
    /\ was.op.result = "round_trip"

\* C37: switching into preview mode and back, with nothing in between, and
\* handling the notification it caused leaves the Buffer, FileIdentity and
\* DirtyFlag as they were before and the preview flag false
C37_PreviewRoundTrip ==
    RoundTripDone
    => /\ lines = editor_content
       /\ current_file = was.current_file
       /\ is_modified = was.is_modified
       /\ ~preview_mode

\* what the round trip keeps: the Buffer, FileIdentity and the preview
\* flag; DirtyFlag is true whatever it was
C37_RoundTripKeepsBufferSetsDirty ==
    RoundTripDone
    => /\ lines = editor_content
       /\ current_file = was.current_file
       /\ is_modified
       /\ ~preview_mode

\* C38: right after a key event has been processed, an editor in NORMAL
\* mode has an empty selection
C38_NormalHasNoSelection ==
    (key \notin {"none", "pointer"} /\ vim_mode = "NORMAL")
    => selection.start = selection.end

\* after every key but undo and redo, NORMAL mode has an empty selection
C38_NormalHasNoSelectionButUndo ==
    (key \notin {"none", "pointer", "u", "ctrl+r"} /\ vim_mode = "NORMAL")
    => selection.start = selection.end

\* C39: after any sequence of selections of entries the application's
\* current directory is the current path of the directory tree
C39_DirectoryFollowsTree == current_directory = current_path

\* a selection whose path the tree could go to moves both; the application
\* follows every DirectoryChanged message, the tree only to a directory
C39_DirectoryFollowsMessage ==
    /\ (tree_op.name = "select" /\ tree_op.listed)
       => current_directory = current_path /\ current_path = tree_op.path
    /\ (tree_op.name = "select" /\ tree_op.posted.name = "DirectoryChanged")
       => current_directory = tree_op.path

\* the editor the last operation found
Found == [Editor EXCEPT !.lines = pre.lines, !.selection = pre.selection,
                        !.vim_mode = pre.vim_mode]

\* the text of the selection of e
Selected(e) == GetTextRange(e.lines, e.selection.start, e.selection.end)

\* the alphanumeric word around the cursor, on the line the cursor is on
WordOnCursorLine(e) ==
    GetCurrentWord(e.lines[CursorLocation(e)[1] + 1], CursorLocation(e)[2])

\* the Buffer after the format tag was applied to the word or selection t
Applied(e, tag, t) == Formatted(e, FormatText(tag, t)).lines

\* C40: a format chosen in the format menu sets DirtyFlag and replaces a
\* non-empty selection by its formatted text, or else inserts at the cursor
\* the formatted alphanumeric word around the cursor on the cursor's line
\* (of the placeholder when there is none); a cancelled menu changes nothing
C40_FormatMenuApplies ==
    /\ op.name = "format"
       => /\ is_modified
          /\ Selected(Found) # <<>>
             => lines = Applied(Found, op.result, Selected(Found))
          /\ Selected(Found) = <<>>
             => lines = Applied(Found, op.result, WordOnCursorLine(Found))
    /\ op.name = "format_cancel"
       => /\ lines = pre.lines /\ selection = pre.selection
          /\ vim_mode = pre.vim_mode
          /\ is_modified = was.is_modified /\ changed = was.changed
          /\ current_file = was.current_file

\* the same with the cursor on the first line when nothing is selected
C40_FormatMenuAppliesOnFirstLine ==
    /\ (op.name = "format" /\ CursorLocation(Found)[1] = 0)
       => /\ is_modified
          /\ Selected(Found) # <<>>
             => lines = Applied(Found, op.result, Selected(Found))
          /\ Selected(Found) = <<>>
             => lines = Applied(Found, op.result, WordOnCursorLine(Found))
    /\ (op.name = "format" /\ Selected(Found) # <<>>)
       => is_modified /\ lines = Applied(Found, op.result, Selected(Found))
    /\ op.name = "format" => is_modified
    /\ op.name = "format_cancel"
       => /\ lines = pre.lines /\ selection = pre.selection
          /\ is_modified = was.is_modified /\ changed = was.changed

====
